---- MODULE Spec2Model ----
(***************************************************************************)
(* Verification model of klaudiush: the validator dispatcher               *)
(* (internal/dispatcher), the validators it runs (git branch, git add,     *)
(* shell script) and the parsing layer they use.                           *)
(***************************************************************************)
EXTENDS Integers, Sequences, FiniteSets, TLC

VARIABLES
    registry,          \* Registry: registered validators with their predicates
    ctx,               \* hook.Context handed to Dispatch
    env,               \* the world the validators look at (git, files, shellcheck)
    pc,                \* position of the caller / Dispatch
    validators,        \* Dispatch: the slice FindValidators returned
    idx,               \* Dispatch: position of the range loop (1-based)
    validationErrors,  \* Dispatch: the slice being built
    out,               \* value returned by the last finished Dispatch
    prevOut,           \* value returned by the Dispatch before that one
    calls,             \* Validate invocations of the running Dispatch, in time order
    blocked,           \* value returned by ShouldBlock(out)
    runs,              \* number of Dispatch calls started
    input,             \* argument of a function that is called on its own
    returned           \* the last such call: function, argument, value returned

vars == <<registry, ctx, env, pc, validators, idx, validationErrors, out,
          prevOut, calls, blocked, runs, input, returned>>

(***************************************************************************)
(* Bounds of the model.                                                    *)
(***************************************************************************)
MaxValidators == 3     \* registered validators (stub validators)
MaxRepoValidators == 2 \* registered validators (validators of the repository)
MaxDispatches == 2     \* Dispatch calls on one Context
NumMapOrders == 2      \* iteration orders of validBranchTypes that are modelled
MaxErrors == 3         \* ValidationErrors handed to FormatErrors
MaxRawLen == 4         \* characters of a raw command line
MaxGitArgs == 3        \* words after `git` in a git command line
MaxNameLen == 3        \* characters of a branch name
MaxChain == 3          \* commands of a chained command line
MaxAddArgs == 2        \* words after `git add`
MaxContentLen == 4     \* bytes of the content handed to Detect
MaxPatterns == 2       \* patterns of a PatternDetector
MaxFileLen == 5        \* bytes of the content handed to ExtractEditFragment
MaxOldLen == 3         \* bytes of oldStr
MaxContextLines == 1   \* contextLines
MaxMdLines == 3        \* lines of a markdown content
MaxRows == 2           \* data rows of a Table

(***************************************************************************)
(* Result and its constructors.                                            *)
(***************************************************************************)
NoDetails == [k \in {} |-> ""]

Result(passed, message, details, shouldBlock) ==
    [Passed |-> passed, Message |-> message, Details |-> details,
     ShouldBlock |-> shouldBlock]

Pass == Result(TRUE, "", NoDetails, FALSE)

Fail(message) == Result(FALSE, message, NoDetails, TRUE)

Warn(message) == Result(FALSE, message, NoDetails, FALSE)

AddDetail(r, key, value) == [r EXCEPT !.Details = (key :> value) @@ @]

(***************************************************************************)
(* Text.  A Go string is a sequence of one-character strings, so that the  *)
(* code's character-level work (tokenizing, ToLower, regexp, path          *)
(* cleaning) is computed rather than assumed.                              *)
(***************************************************************************)
LowerLetters ==
    <<"a", "b", "c", "d", "e", "f", "g", "h", "i", "j", "k", "l", "m",
      "n", "o", "p", "q", "r", "s", "t", "u", "v", "w", "x", "y", "z">>

UpperLetters ==
    <<"A", "B", "C", "D", "E", "F", "G", "H", "I", "J", "K", "L", "M",
      "N", "O", "P", "Q", "R", "S", "T", "U", "V", "W", "X", "Y", "Z">>

Digits == {"0", "1", "2", "3", "4", "5", "6", "7", "8", "9"}

Whitespace == {" ", "\t", "\n", "\r"}

IsLower(c) == \E i \in 1..Len(LowerLetters) : LowerLetters[i] = c

IsUpper(c) == \E i \in 1..Len(UpperLetters) : UpperLetters[i] = c

ToLowerChar(c) ==
    IF IsUpper(c)
    THEN LowerLetters[CHOOSE i \in 1..Len(UpperLetters) : UpperLetters[i] = c]
    ELSE c

\* strings.ToLower
ToLower(s) == [i \in 1..Len(s) |-> ToLowerChar(s[i])]

\* strings.HasPrefix
HasPrefix(s, prefix) ==
    Len(s) >= Len(prefix) /\ SubSeq(s, 1, Len(prefix)) = prefix

\* strings.TrimSpace(s) == ""
IsBlank(s) == \A i \in 1..Len(s) : s[i] \in Whitespace

\* The text as one string value, for messages.
RECURSIVE Str(_)
Str(s) == IF Len(s) = 0 THEN "" ELSE Head(s) \o Str(Tail(s))

\* strings.Split(s, sep) for a one-character separator.
RECURSIVE SplitFrom(_, _, _, _)
SplitFrom(s, sep, i, cur) ==
    IF i > Len(s) THEN <<cur>>
    ELSE IF s[i] = sep THEN <<cur>> \o SplitFrom(s, sep, i + 1, <<>>)
    ELSE SplitFrom(s, sep, i + 1, Append(cur, s[i]))

Split(s, sep) == SplitFrom(s, sep, 1, <<>>)

\* strings.Join of texts / of string values.
RECURSIVE Join(_, _)
Join(parts, sep) ==
    IF Len(parts) = 0 THEN <<>>
    ELSE IF Len(parts) = 1 THEN parts[1]
    ELSE parts[1] \o sep \o Join(Tail(parts), sep)

RECURSIVE JoinStr(_, _)
JoinStr(parts, sep) ==
    IF Len(parts) = 0 THEN ""
    ELSE IF Len(parts) = 1 THEN parts[1]
    ELSE parts[1] \o sep \o JoinStr(Tail(parts), sep)

T_git == <<"g", "i", "t">>

T_add == <<"a", "d", "d">>

T_checkout == <<"c", "h", "e", "c", "k", "o", "u", "t">>

T_branch == <<"b", "r", "a", "n", "c", "h">>

T_DashB == <<"-", "b">>

T_DashD == <<"-", "d">>

T_DashBigD == <<"-", "D">>

T_DashDelete == <<"-", "-", "d", "e", "l", "e", "t", "e">>

T_DashChmod == <<"-", "-", "c", "h", "m", "o", "d">>

T_Dot == <<".">>

T_DotDot == <<".", ".">>

T_TmpPrefix == <<"t", "m", "p", "/">>

T_main == <<"m", "a", "i", "n">>

T_master == <<"m", "a", "s", "t", "e", "r">>


(***************************************************************************)
(* Tokenizer/Splitter: Parse(raw) -> (ParseResult, error).                 *)
(***************************************************************************)
Command(name, args) == [Name |-> name, Args |-> args]

ParseOk(commands) == [ok |-> TRUE, err |-> "", Commands |-> commands]

ParseError(message) == [ok |-> FALSE, err |-> message, Commands |-> <<>>]

\* The words collected so far, with the pending token closed.
FlushToken(words, tok, hasTok) == IF hasTok THEN Append(words, tok) ELSE words

\* The commands collected so far, with the pending words closed as a command.
FlushCommandInFront(cmds, words) ==
    IF Len(words) = 0 THEN cmds
    ELSE <<Command(Head(words), Tail(words))>> \o cmds

FlushCommand(cmds, words) ==
    IF Len(words) = 0 THEN cmds
    ELSE Append(cmds, Command(Head(words), Tail(words)))

\* The scanner's state: quote mode, pending token, words of the pending
\* command, finished commands; skip is set when the next character has been
\* consumed already (escaped character, second character of an operator).
Scan(mode, skip, tok, hasTok, words, cmds) ==
    [mode |-> mode, skip |-> skip, tok |-> tok, hasTok |-> hasTok,
     words |-> words, cmds |-> cmds]

ScanError(message) ==
    [mode |-> "error", skip |-> FALSE, tok |-> <<>>, hasTok |-> FALSE,
     words |-> <<>>, cmds |-> <<>>, err |-> message]

ScanLiteral(st, c, skip) == Scan(st.mode, skip, Append(st.tok, c), TRUE, st.words, st.cmds)

ScanMode(st, mode) == Scan(mode, FALSE, st.tok, TRUE, st.words, st.cmds)

ScanEndTokenKeepsEmpty(st) ==
    Scan(st.mode, FALSE, <<>>, FALSE, Append(st.words, st.tok), st.cmds)

ScanEndToken(st) ==
    Scan(st.mode, FALSE, <<>>, FALSE, FlushToken(st.words, st.tok, st.hasTok), st.cmds)

ScanEndCommand(st, skip) ==
    Scan(st.mode, skip, <<>>, FALSE, <<>>,
         FlushCommand(st.cmds, FlushToken(st.words, st.tok, st.hasTok)))

\* The state after the character at position i.
ScanStep(st, s, i) ==
    LET c == s[i]
        next == IF i < Len(s) THEN s[i + 1] ELSE ""
    IN
    IF st.skip THEN Scan(st.mode, FALSE, st.tok, st.hasTok, st.words, st.cmds)
    ELSE IF st.mode = "single" THEN
        IF c = "'" THEN ScanMode(st, "plain") ELSE ScanLiteral(st, c, FALSE)
    ELSE IF st.mode = "double" THEN
        IF c = "\"" THEN ScanMode(st, "plain")
        ELSE IF c = "\\" /\ next \in {"\"", "\\", "$"} THEN ScanLiteral(st, next, TRUE)
        ELSE ScanLiteral(st, c, FALSE)
    ELSE IF c = "\\" THEN
        IF i = Len(s) THEN ScanError("trailing backslash")
        ELSE ScanLiteral(st, next, TRUE)
    ELSE IF c = "'" THEN ScanMode(st, "single")
    ELSE IF c = "\"" THEN ScanMode(st, "double")
    ELSE IF c \in Whitespace THEN ScanEndToken(st)
    ELSE IF c = ";" THEN ScanEndCommand(st, FALSE)
    ELSE IF c = "|" THEN ScanEndCommand(st, next = "|")
    ELSE IF c = "&" /\ next = "&" THEN ScanEndCommand(st, TRUE)
    ELSE ScanLiteral(st, c, FALSE)

RECURSIVE ScanFrom(_, _, _)
ScanFrom(st, s, i) ==
    IF i > Len(s) \/ st.mode = "error" THEN st
    ELSE ScanFrom(ScanStep(st, s, i), s, i + 1)

ParseKeepsPartial(raw) ==
    LET st == ScanFrom(Scan("plain", FALSE, <<>>, FALSE, <<>>, <<>>), raw, 1) IN
    IF st.mode = "error" THEN [ParseError(st.err) EXCEPT !.Commands = st.cmds]
    ELSE IF st.mode # "plain"
         THEN [ParseError("unterminated quote") EXCEPT !.Commands = st.cmds]
    ELSE ParseOk(ScanEndCommand(st, FALSE).cmds)

Parse(raw) ==
    LET st == ScanFrom(Scan("plain", FALSE, <<>>, FALSE, <<>>, <<>>), raw, 1) IN
    IF st.mode = "error" THEN ParseError(st.err)
    ELSE IF st.mode # "plain" THEN ParseError("unterminated quote")
    ELSE ParseOk(ScanEndCommand(st, FALSE).cmds)

\* Command.HasFlag: exact match against args.
CommandHasFlag(cmd, token) == \E i \in 1..Len(cmd.Args) : cmd.Args[i] = token

(***************************************************************************)
(* Git Command Extractor: ParseGitCommand(cmd) -> (GitCommand, error).     *)
(***************************************************************************)
GitCommand(subcommand, flags, args) ==
    [Subcommand |-> subcommand, Flags |-> flags, Args |-> args]

GitOk(gitCmd) == [ok |-> TRUE, err |-> "", cmd |-> gitCmd]

GitError(message) ==
    [ok |-> FALSE, err |-> message, cmd |-> GitCommand(<<>>, <<>>, <<>>)]

\* The flags that take a value, per subcommand.
ValueFlags(subcommand) ==
    IF subcommand = T_checkout THEN {T_DashB}
    ELSE IF subcommand = T_add THEN {T_DashChmod}
    ELSE {}

IsFlagToken(token) == Len(token) > 0 /\ token[1] = "-"

RECURSIVE ExtractFrom(_, _, _, _, _)
ExtractFrom(tokens, i, subcommand, flags, args) ==
    IF i > Len(tokens) THEN GitCommand(subcommand, flags, args)
    ELSE IF IsFlagToken(tokens[i]) THEN
        IF tokens[i] \in ValueFlags(subcommand) /\ i < Len(tokens)
        THEN ExtractFrom(tokens, i + 2, subcommand,
                         flags \o <<tokens[i], tokens[i + 1]>>, args)
        ELSE ExtractFrom(tokens, i + 1, subcommand, Append(flags, tokens[i]), args)
    ELSE ExtractFrom(tokens, i + 1, subcommand, flags, Append(args, tokens[i]))

ParseGitCommand(cmd) ==
    IF cmd.Name # T_git THEN GitError("not a git command")
    ELSE IF Len(cmd.Args) = 0 THEN GitError("no git subcommand")
    ELSE GitOk(ExtractFrom(cmd.Args, 2, cmd.Args[1], <<>>, <<>>))

\* GitCommand.HasFlag
HasFlag(gitCmd, flag) == \E i \in 1..Len(gitCmd.Flags) : gitCmd.Flags[i] = flag

(***************************************************************************)
(* hook.Context.                                                           *)
(***************************************************************************)
EventTypes == {"PreToolUse", "PostToolUse", "Notification"}

ToolTypes == {"Bash", "Write", "Edit", "MultiEdit", "Grep", "Read", "Glob"}

ToolInput(command, filePath, path, content) ==
    [Command |-> command, FilePath |-> filePath, Path |-> path, Content |-> content]

Context(eventType, toolName, toolInput) ==
    [EventType |-> eventType, ToolName |-> toolName, ToolInput |-> toolInput,
     NotificationType |-> ""]

GetCommand(c) == c.ToolInput.Command

GetFilePath(c) ==
    IF c.ToolInput.FilePath # <<>> THEN c.ToolInput.FilePath ELSE c.ToolInput.Path

(***************************************************************************)
(* Registry: validators registered with a predicate over the context.      *)
(***************************************************************************)
Predicate(events, tools) == [events |-> events, tools |-> tools]

\* A predicate may also name the notification types it applies to.
NotificationPredicate(types) ==
    [events |-> {"Notification"}, tools |-> ToolTypes \cup {""}, notifications |-> types]

Matches(p, c) ==
    /\ c.EventType \in p.events
    /\ c.ToolName \in p.tools
    /\ "notifications" \in DOMAIN p => c.NotificationType \in p.notifications

Registration(v, p) == [validator |-> v, predicate |-> p]

RECURSIVE FindFromFirstOnly(_, _, _)
FindFromFirstOnly(reg, c, i) ==
    IF i > Len(reg) THEN <<>>
    ELSE IF Matches(reg[i].predicate, c) THEN <<reg[i].validator>>
    ELSE FindFromFirstOnly(reg, c, i + 1)

RECURSIVE FindFrom(_, _, _)
FindFrom(reg, c, i) ==
    IF i > Len(reg) THEN <<>>
    ELSE IF Matches(reg[i].predicate, c)
         THEN <<reg[i].validator>> \o FindFrom(reg, c, i + 1)
         ELSE FindFrom(reg, c, i + 1)

FindValidators(reg, c) == FindFrom(reg, c, 1)

(***************************************************************************)
(* BranchValidator (validate-branch-name).                                 *)
(***************************************************************************)
minBranchParts == 2

ProtectedBranches == {T_main, T_master}

\* The keys of the validBranchTypes map, as written in the source.
ValidBranchTypeKeys ==
    << <<"f", "e", "a", "t">>,
       <<"f", "i", "x">>,
       <<"d", "o", "c", "s">>,
       <<"s", "t", "y", "l", "e">>,
       <<"r", "e", "f", "a", "c", "t", "o", "r">>,
       <<"t", "e", "s", "t">>,
       <<"c", "h", "o", "r", "e">>,
       <<"c", "i">>,
       <<"b", "u", "i", "l", "d">>,
       <<"p", "e", "r", "f">> >>

IsValidBranchType(t) ==
    \E i \in 1..Len(ValidBranchTypeKeys) : ValidBranchTypeKeys[i] = t

\* `for t := range validBranchTypes`: Go leaves the iteration order of a map
\* unspecified and varies it from one loop to the next; order selects one of
\* the orders (a rotation of the keys).
RangeValidBranchTypes(order) ==
    [i \in 1..Len(ValidBranchTypeKeys) |->
        ValidBranchTypeKeys[((i - 1 + order) % Len(ValidBranchTypeKeys)) + 1]]

\* The same loop if the keys were visited in one fixed order.
RangeValidBranchTypesFixed(order) == ValidBranchTypeKeys

\* branchNamePattern: ^[a-z]+/[a-z0-9-]+$
IsDescriptionChar(c) == IsLower(c) \/ c \in Digits \/ c = "-"

BranchNamePatternMatches(name) ==
    \E k \in 2..(Len(name) - 1) :
        /\ name[k] = "/"
        /\ \A i \in 1..(k - 1) : IsLower(name[i])
        /\ \A i \in (k + 1)..Len(name) : IsDescriptionChar(name[i])

\* strings.SplitN(s, "/", 2)
SplitN2(s) ==
    IF \E k \in 1..Len(s) : s[k] = "/"
    THEN LET k == CHOOSE k \in 1..Len(s) :
                    s[k] = "/" /\ \A j \in 1..(k - 1) : s[j] # "/"
         IN <<SubSeq(s, 1, k - 1), SubSeq(s, k + 1, Len(s))>>
    ELSE <<s>>

StrAll(texts) == [i \in 1..Len(texts) |-> Str(texts[i])]

validateBranchNameFormatFirst(branchName, order) ==
    IF branchName \in ProtectedBranches THEN Pass
    ELSE IF ~BranchNamePatternMatches(branchName) THEN
        Fail("Branch name must follow type/description format\n\n"
             \o "Branch name '" \o Str(branchName) \o "' doesn't match pattern\n\n"
             \o "Expected format: <type>/<description>\n"
             \o "Valid types: feat, fix, docs, style, refactor, test, chore, ci, build, perf\n\n"
             \o "Example: feat/add-user-auth or fix/login-bug-123")
    ELSE IF ~IsValidBranchType(SplitN2(branchName)[1]) THEN
        Fail("Invalid branch type\n\n"
             \o "Branch type '" \o Str(SplitN2(branchName)[1]) \o "' is not valid\n\n"
             \o "Valid types: "
             \o JoinStr(StrAll(RangeValidBranchTypes(order)), ", "))
    ELSE Pass

validateBranchName(branchName, order) ==
    IF branchName \in ProtectedBranches THEN Pass
    ELSE IF branchName # ToLower(branchName) THEN
        Fail("Branch name must be lowercase\n\n"
             \o "Branch name '" \o Str(branchName) \o "' contains uppercase characters\n\n"
             \o "Use: " \o Str(ToLower(branchName)))
    ELSE IF ~BranchNamePatternMatches(branchName) THEN
        Fail("Branch name must follow type/description format\n\n"
             \o "Branch name '" \o Str(branchName) \o "' doesn't match pattern\n\n"
             \o "Expected format: <type>/<description>\n"
             \o "Valid types: feat, fix, docs, style, refactor, test, chore, ci, build, perf\n\n"
             \o "Example: feat/add-user-auth or fix/login-bug-123")
    ELSE LET parts == SplitN2(branchName) IN
        IF Len(parts) # minBranchParts THEN
            Fail("Branch name must contain type and description\n\n"
                 \o "Branch name '" \o Str(branchName) \o "' is missing type or description\n\n"
                 \o "Expected format: <type>/<description>")
        ELSE IF ~IsValidBranchType(parts[1]) THEN
            Fail("Invalid branch type\n\n"
                 \o "Branch type '" \o Str(parts[1]) \o "' is not valid\n\n"
                 \o "Valid types: "
                 \o JoinStr(StrAll(RangeValidBranchTypes(order)), ", "))
        ELSE Pass

createSpaceError ==
    Fail("Branch name appears to contain spaces\n\n"
         \o "Branch names cannot contain spaces. Use hyphens instead.\n\n"
         \o "Example: feat/my-feature not feat/my feature")

BranchName(name, hasExtra) == [name |-> name, hasExtra |-> hasExtra]

extractCheckoutBranchNameFlagsOnly(gitCmd) ==
    IF \E i \in 1..(Len(gitCmd.Flags) - 1) : gitCmd.Flags[i] = T_DashB
    THEN LET i == CHOOSE i \in 1..(Len(gitCmd.Flags) - 1) :
                    /\ gitCmd.Flags[i] = T_DashB
                    /\ \A j \in 1..(i - 1) : gitCmd.Flags[j] # T_DashB
         IN BranchName(gitCmd.Flags[i + 1], Len(gitCmd.Args) > 0)
    ELSE BranchName(<<>>, FALSE)

extractCheckoutBranchName(gitCmd) ==
    IF \E i \in 1..(Len(gitCmd.Flags) - 1) : gitCmd.Flags[i] = T_DashB
    THEN LET i == CHOOSE i \in 1..(Len(gitCmd.Flags) - 1) :
                    /\ gitCmd.Flags[i] = T_DashB
                    /\ \A j \in 1..(i - 1) : gitCmd.Flags[j] # T_DashB
         IN BranchName(gitCmd.Flags[i + 1], Len(gitCmd.Args) > 0)
    ELSE IF Len(gitCmd.Args) > 0
         THEN BranchName(gitCmd.Args[1], Len(gitCmd.Args) > 1)
         ELSE BranchName(<<>>, FALSE)

extractBranchCommandName(gitCmd) ==
    IF Len(gitCmd.Args) > 0
    THEN BranchName(gitCmd.Args[1], Len(gitCmd.Args) > 1)
    ELSE BranchName(<<>>, FALSE)

extractBranchName(gitCmd) ==
    IF gitCmd.Subcommand = T_checkout THEN extractCheckoutBranchName(gitCmd)
    ELSE IF gitCmd.Subcommand = T_branch THEN extractBranchCommandName(gitCmd)
    ELSE BranchName(<<>>, FALSE)

\* A *validator.Result that may be nil.
NilResult == [isNil |-> TRUE, result |-> Pass]

ResultPtr(r) == [isNil |-> FALSE, result |-> r]

validateCheckoutNameFirst(gitCmd, order) ==
    IF ~HasFlag(gitCmd, T_DashB) THEN NilResult
    ELSE LET b == extractBranchName(gitCmd)
             r == validateBranchName(b.name, order)
         IN IF b.name = <<>> THEN NilResult
            ELSE IF ~r.Passed THEN ResultPtr(r)
            ELSE IF b.hasExtra THEN ResultPtr(createSpaceError)
            ELSE ResultPtr(r)

validateCheckout(gitCmd, order) ==
    IF ~HasFlag(gitCmd, T_DashB) THEN NilResult
    ELSE LET b == extractBranchName(gitCmd) IN
        IF b.name = <<>> THEN NilResult
        ELSE IF b.hasExtra THEN ResultPtr(createSpaceError)
        ELSE ResultPtr(validateBranchName(b.name, order))

validateBranchChecksDeleted(gitCmd, order) ==
    LET b == extractBranchName(gitCmd) IN
    IF b.name = <<>> THEN NilResult
    ELSE IF b.hasExtra THEN ResultPtr(createSpaceError)
    ELSE ResultPtr(validateBranchName(b.name, order))

validateBranch(gitCmd, order) ==
    IF HasFlag(gitCmd, T_DashD) \/ HasFlag(gitCmd, T_DashBigD)
       \/ HasFlag(gitCmd, T_DashDelete)
    THEN NilResult
    ELSE LET b == extractBranchName(gitCmd) IN
        IF b.name = <<>> THEN NilResult
        ELSE IF b.hasExtra THEN ResultPtr(createSpaceError)
        ELSE ResultPtr(validateBranchName(b.name, order))

validateGitCommand(gitCmd, order) ==
    IF gitCmd.Subcommand = T_checkout THEN validateCheckout(gitCmd, order)
    ELSE IF gitCmd.Subcommand = T_branch THEN validateBranch(gitCmd, order)
    ELSE NilResult

RECURSIVE BranchScanStopsAtResult(_, _, _)
BranchScanStopsAtResult(commands, i, order) ==
    IF i > Len(commands) THEN Pass
    ELSE IF commands[i].Name # T_git THEN BranchScanStopsAtResult(commands, i + 1, order)
    ELSE LET parsed == ParseGitCommand(commands[i]) IN
        IF ~parsed.ok THEN BranchScanStopsAtResult(commands, i + 1, order)
        ELSE LET r == validateGitCommand(parsed.cmd, order) IN
            IF ~r.isNil THEN r.result
            ELSE BranchScanStopsAtResult(commands, i + 1, order)

\* The loop over parseResult.Commands, from position i.
RECURSIVE BranchScan(_, _, _)
BranchScan(commands, i, order) ==
    IF i > Len(commands) THEN Pass
    ELSE IF commands[i].Name # T_git THEN BranchScan(commands, i + 1, order)
    ELSE LET parsed == ParseGitCommand(commands[i]) IN
        IF ~parsed.ok THEN BranchScan(commands, i + 1, order)
        ELSE LET r == validateGitCommand(parsed.cmd, order) IN
            IF ~r.isNil /\ ~r.result.Passed THEN r.result
            ELSE BranchScan(commands, i + 1, order)

BranchValidateSilentOnParseError(c, order) ==
    LET parseResult == Parse(c.ToolInput.Command) IN
    IF ~parseResult.ok THEN Pass
    ELSE BranchScan(parseResult.Commands, 1, order)

BranchValidate(c, order) ==
    LET parseResult == Parse(c.ToolInput.Command) IN
    IF ~parseResult.ok
    THEN Warn("Failed to parse command: " \o parseResult.err)
    ELSE BranchScan(parseResult.Commands, 1, order)

(***************************************************************************)
(* AddValidator (validate-git-add).                                        *)
(***************************************************************************)
\* filepath.Clean: the components of the path with "", "." dropped and ".."
\* resolved.
RECURSIVE CleanComponents(_, _, _, _)
CleanComponents(parts, i, rooted, kept) ==
    IF i > Len(parts) THEN kept
    ELSE IF parts[i] = <<>> \/ parts[i] = T_Dot
         THEN CleanComponents(parts, i + 1, rooted, kept)
    ELSE IF parts[i] = T_DotDot THEN
        IF Len(kept) > 0 /\ kept[Len(kept)] # T_DotDot
        THEN CleanComponents(parts, i + 1, rooted, SubSeq(kept, 1, Len(kept) - 1))
        ELSE IF rooted THEN CleanComponents(parts, i + 1, rooted, kept)
        ELSE CleanComponents(parts, i + 1, rooted, Append(kept, parts[i]))
    ELSE CleanComponents(parts, i + 1, rooted, Append(kept, parts[i]))

Clean(path) ==
    IF Len(path) = 0 THEN T_Dot
    ELSE LET rooted == path[1] = "/"
             kept == CleanComponents(Split(path, "/"), 1, rooted, <<>>)
         IN IF rooted THEN <<"/">> \o Join(kept, <<"/">>)
            ELSE IF Len(kept) = 0 THEN T_Dot
            ELSE Join(kept, <<"/">>)

RECURSIVE ExtractFilePathsFrom(_, _, _, _)
ExtractFilePathsFrom(args, i, skipNext, files) ==
    IF i > Len(args) THEN files
    ELSE IF skipNext THEN ExtractFilePathsFrom(args, i + 1, FALSE, files)
    ELSE IF IsBlank(args[i]) THEN ExtractFilePathsFrom(args, i + 1, FALSE, files)
    ELSE IF HasPrefix(args[i], <<"-">>)
         THEN ExtractFilePathsFrom(args, i + 1, args[i] = T_DashChmod, files)
    ELSE IF args[i] = T_Dot THEN ExtractFilePathsFrom(args, i + 1, FALSE, files)
    ELSE ExtractFilePathsFrom(args, i + 1, FALSE, Append(files, Clean(args[i])))

extractFilePaths(args) == ExtractFilePathsFrom(args, 1, FALSE, <<>>)

IsTmpFile(file) == HasPrefix(file, T_TmpPrefix)

\* The loop over result.Commands: the tmp/ files of every `git add`.
RECURSIVE AddScan(_, _, _)
AddScan(commands, i, tmpFiles) ==
    IF i > Len(commands) THEN tmpFiles
    ELSE LET cmd == commands[i] IN
        IF cmd.Name # T_git \/ Len(cmd.Args) = 0 \/ cmd.Args[1] # T_add
        THEN AddScan(commands, i + 1, tmpFiles)
        ELSE AddScan(commands, i + 1,
                     tmpFiles \o SelectSeq(extractFilePaths(Tail(cmd.Args)), IsTmpFile))

RECURSIVE FileList(_)
FileList(files) ==
    IF Len(files) = 0 THEN ""
    ELSE "  - " \o Str(Head(files)) \o "\n" \o FileList(Tail(files))

\* getGitRoot: `git rev-parse --show-toplevel` under gitCommandTimeout; an
\* error when git fails (not a repository) or the timeout kills it.
getGitRootMissesTimeout(e) == e.git = "notrepo"

getGitRootFails(e) == e.git # "root"

AddValidate(c, e) ==
    IF getGitRootFails(e) THEN Pass
    ELSE LET result == Parse(GetCommand(c)) IN
        IF ~result.ok THEN Warn("Failed to parse command: " \o result.err)
        ELSE LET tmpFiles == AddScan(result.Commands, 1, <<>>) IN
            IF Len(tmpFiles) > 0
            THEN AddDetail(Fail("Attempting to add files from tmp/ directory"),
                           "help",
                           "Files in tmp/ should be in .gitignore or .git/info/exclude\n\n"
                           \o "Files being added:\n"
                           \o FileList(tmpFiles)
                           \o "\nAdd tmp/ to .git/info/exclude:\n"
                           \o "  echo 'tmp/' >> .git/info/exclude")
            ELSE Pass

(***************************************************************************)
(* ShellScriptValidator (validate-shellscript).                            *)
(***************************************************************************)
\* filepath.Ext: the suffix from the last dot of the last path element.
RECURSIVE ExtFrom(_, _)
ExtFrom(path, i) ==
    IF i < 1 \/ path[i] = "/" THEN <<>>
    ELSE IF path[i] = "." THEN SubSeq(path, i, Len(path))
    ELSE ExtFrom(path, i - 1)

Ext(path) == ExtFrom(path, Len(path))

isFishScriptByExtension(filePath, content) ==
    Ext(filePath) = <<".", "f", "i", "s", "h">>

isFishScript(filePath, content) ==
    \/ Ext(filePath) = <<".", "f", "i", "s", "h">>
    \/ HasPrefix(content,
                 <<"#", "!", "/", "u", "s", "r", "/", "b", "i", "n", "/", "e", "n", "v",
                   " ", "f", "i", "s", "h">>)
    \/ HasPrefix(content,
                 <<"#", "!", "/", "u", "s", "r", "/", "b", "i", "n", "/", "f", "i", "s", "h">>)
    \/ HasPrefix(content, <<"#", "!", "/", "b", "i", "n", "/", "f", "i", "s", "h">>)

IsNotBlank(line) == ~IsBlank(line)

formatShellCheckOutput(output) ==
    "Shellcheck validation failed\n\n"
    \o Str(Join(SelectSeq(Split(output, "\n"), IsNotBlank), <<"\n">>))
    \o "\n\nFix these issues before committing."

\* checker.Check under shellCheckTimeout: the linter's result in this world.
Check(e, content) == e.check

\* Validate with the calls it makes to the checker: the Result it returns
\* and the contents it handed to checker.Check, in time order. The content
\* linted is the context's, or the file's when the context has none.
ShellRun(c, e) ==
    LET filePath == GetFilePath(c)
        skipped == [result |-> Pass, checked |-> <<>>]
    IN
    IF filePath = <<>> THEN skipped
    ELSE IF c.ToolInput.Content = <<>> /\ e.file = "missing" THEN skipped
    ELSE IF c.ToolInput.Content = <<>> /\ e.file = "unreadable" THEN skipped
    ELSE LET content == IF c.ToolInput.Content = <<>> THEN e.data
                        ELSE c.ToolInput.Content
         IN IF isFishScript(filePath, content) THEN skipped
            ELSE LET result == Check(e, content) IN
                [result |-> IF result.Success THEN Pass
                            ELSE Fail(formatShellCheckOutput(result.RawOut)),
                 checked |-> <<content>>]

ShellValidate(c, e) == ShellRun(c, e).result

RepoValidator(kind, name) == [kind |-> kind, name |-> name]

BranchValidator == RepoValidator("branch", "validate-branch-name")

AddValidator == RepoValidator("add", "validate-git-add")

ShellScriptValidator == RepoValidator("shell", "validate-shellscript")

(***************************************************************************)
(* A validator behind the capability interface {Name, Validate}.  A stub   *)
(* validator returns the Result it was built with, whatever the context.   *)
(***************************************************************************)
StubValidator(name, result) == [kind |-> "stub", name |-> name, result |-> result]

Name(v) == v.name

Validate(v, c, e, order) ==
    CASE v.kind = "stub" -> v.result
      [] v.kind = "branch" -> BranchValidate(c, order)
      [] v.kind = "add" -> AddValidate(c, e)
      [] v.kind = "shell" -> ShellValidate(c, e)

(***************************************************************************)
(* Dispatcher (internal/dispatcher/dispatcher.go).                         *)
(***************************************************************************)
ValidationError(validator, result) ==
    [Validator |-> validator, Message |-> result.Message,
     Details |-> result.Details, ShouldBlock |-> result.ShouldBlock]

\* ShouldBlock: range over the errors, return true at the first blocking one.
ShouldBlockFirstOnly(errors) == Len(errors) > 0 /\ errors[1].ShouldBlock

ShouldBlockAll(errors) ==
    Len(errors) > 0 /\ \A i \in 1..Len(errors) : errors[i].ShouldBlock

RECURSIVE ShouldBlockFrom(_, _)
ShouldBlockFrom(errors, i) ==
    IF i > Len(errors) THEN FALSE
    ELSE IF errors[i].ShouldBlock THEN TRUE
    ELSE ShouldBlockFrom(errors, i + 1)

ShouldBlock(errors) == ShouldBlockFrom(errors, 1)

\* `for k, v := range err.Details`: the keys in the orders Go may visit them.
KeyOrders(details) ==
    { ks \in [1..Cardinality(DOMAIN details) -> DOMAIN details] :
        \A i, j \in 1..Cardinality(DOMAIN details) : i # j => ks[i] # ks[j] }

\* The pieces appended to result for one error: Sprintf("  %s\n", Message),
\* Sprintf("    %s: %s\n", k, v) per detail, "\n".
FormatError(err, ks) ==
    <<"  " \o err.Message \o "\n">>
    \o [i \in 1..Len(ks) |-> "    " \o ks[i] \o ": " \o err.Details[ks[i]] \o "\n"]
    \o <<"\n">>

RECURSIVE FormatEntries(_)
FormatEntries(entries) ==
    IF Len(entries) = 0 THEN <<>>
    ELSE FormatError(Head(entries).err, Head(entries).keys)
         \o FormatEntries(Tail(entries))

\* One section: nothing when it has no error, else the header and the errors.
FormatSectionFirstOnly(header, entries) ==
    IF Len(entries) = 0 THEN <<>>
    ELSE <<header>> \o FormatEntries(<<Head(entries)>>)

FormatSection(header, entries) ==
    IF Len(entries) = 0 THEN <<>>
    ELSE <<header>> \o FormatEntries(entries)

IsBlockingEntry(entry) == entry.err.ShouldBlock

IsWarningEntry(entry) == ~entry.err.ShouldBlock

\* The two headers; the mark that leads each of them in the source (a
\* non-ASCII glyph) is not written here.
FailedHeader == "Validation Failed:\n\n"

WarningsHeader == "Warnings:\n\n"

\* FormatErrors: the returned string, as the sequence of the pieces appended
\* to result; orders[i] is the order in which the details of errors[i] are
\* visited.
FormatErrors(errors, orders) ==
    LET entries == [i \in 1..Len(errors) |-> [err |-> errors[i], keys |-> orders[i]]]
        blockingErrors == SelectSeq(entries, IsBlockingEntry)
        warnings == SelectSeq(entries, IsWarningEntry)
    IN IF Len(errors) = 0 THEN <<>>
       ELSE FormatSection(FailedHeader, blockingErrors)
            \o FormatSection(WarningsHeader, warnings)

\* The orders the details of each error may be visited in.
DetailOrders(errors) ==
    { os \in [1..Len(errors) -> UNION {KeyOrders(errors[i].Details) : i \in 1..Len(errors)}] :
        \A i \in 1..Len(errors) : os[i] \in KeyOrders(errors[i].Details) }

\* `return nil` when no validator matches.
NoValidatorsError ==
    <<[Validator |-> "dispatcher", Message |-> "no validators found",
       Details |-> NoDetails, ShouldBlock |-> TRUE]>>

NoValidatorsResult == <<>>

\* The errors slice after the loop body has handled one Result.
CollectEveryResult(errors, v, result) ==
    Append(errors, ValidationError(Name(v), result))

CollectInFront(errors, v, result) ==
    IF result.Passed THEN errors
    ELSE <<ValidationError(Name(v), result)>> \o errors

Collect(errors, v, result) ==
    IF result.Passed THEN errors
    ELSE Append(errors, ValidationError(Name(v), result))

\* Position of the range loop after the body has run for position i.
LoopStopsAtBlocking(i, result) ==
    IF ~result.Passed /\ result.ShouldBlock THEN Len(validators) + 1 ELSE i + 1

LoopNext(i, result) == i + 1

\* The Context behind the pointer after v.Validate(ctx) has returned: the
\* validators read it and write nothing through it.
ContextCommandCleared(v, c) == [c EXCEPT !.ToolInput.Command = <<>>, !.ToolName = "Read"]

ContextAfterValidate(v, c) == c

MapOrders == 0 .. (NumMapOrders - 1)

DispatchBegin ==
    /\ pc \in {"idle", "decided"}
    /\ runs < MaxDispatches
    /\ runs' = runs + 1
    /\ prevOut' = out
    /\ calls' = <<>>
    /\ validationErrors' = <<>>
    /\ idx' = 1
    /\ LET found == FindValidators(registry, ctx) IN
         /\ validators' = found
         /\ IF Len(found) = 0
            THEN pc' = "done" /\ out' = NoValidatorsResult
            ELSE pc' = "loop" /\ out' = out
    /\ UNCHANGED <<registry, ctx, env, blocked, input, returned>>

DispatchStep ==
    /\ pc = "loop"
    /\ idx <= Len(validators)
    /\ \E order \in MapOrders :
         LET v == validators[idx]
             result == Validate(v, ctx, env, order)
         IN /\ calls' = Append(calls, [pos |-> idx, validator |-> Name(v),
                                        ctx |-> ctx, result |-> result])
            /\ validationErrors' = Collect(validationErrors, v, result)
            /\ idx' = LoopNext(idx, result)
            /\ ctx' = ContextAfterValidate(v, ctx)
    /\ UNCHANGED <<registry, env, pc, validators, out, prevOut, blocked, runs,
                   input, returned>>

DispatchReturn ==
    /\ pc = "loop"
    /\ idx > Len(validators)
    /\ out' = validationErrors
    /\ pc' = "done"
    /\ UNCHANGED <<registry, ctx, env, validators, idx, validationErrors,
                   prevOut, calls, blocked, runs, input, returned>>

\* The caller asks for the blocking decision of the returned errors.
CallShouldBlock ==
    /\ pc = "done"
    /\ blocked' = ShouldBlock(out)
    /\ pc' = "decided"
    /\ UNCHANGED <<registry, ctx, env, validators, idx, validationErrors, out,
                   prevOut, calls, runs, input, returned>>

Next == DispatchBegin \/ DispatchStep \/ DispatchReturn \/ CallShouldBlock

(***************************************************************************)
(* Initial states: a registry of stub validators and one Context.          *)
(***************************************************************************)
SeqsUpTo(S, n) == UNION {[1..k -> S] : k \in 0..n}

StubResults ==
    { Pass,
      Warn("style warning"),
      Fail("policy violation"),
      AddDetail(Fail("tmp files"), "help", "use .gitignore"),
      Result(TRUE, "note", NoDetails, TRUE) }

StubName(r) ==
    IF r.Passed THEN "stub-pass"
    ELSE IF r.ShouldBlock THEN "stub-fail" ELSE "stub-warn"

StubPredicates ==
    { Predicate({"PreToolUse"}, {"Bash"}),
      Predicate({"PreToolUse"}, {"Bash", "Write", "Edit"}) }

StubRegistrations ==
    { Registration(StubValidator(StubName(r), r), p) :
        r \in StubResults, p \in StubPredicates }

NoInput == ToolInput(<<>>, <<>>, <<>>, <<>>)

StubContexts ==
    { Context(e, t, NoInput) : e \in {"PreToolUse", "PostToolUse"},
                               t \in {"Bash", "Write"} }

QuietEnv ==
    [git |-> "root", file |-> "missing", data |-> <<>>,
     check |-> [Success |-> TRUE, RawOut |-> <<>>, timedOut |-> FALSE]]

\* No function has been called on its own.
NoCall == [fn |-> "", arg |-> <<>>, val |-> <<>>]

InitDispatch ==
    /\ input = <<>>
    /\ returned = NoCall
    /\ pc = "idle"
    /\ validators = <<>>
    /\ idx = 1
    /\ validationErrors = <<>>
    /\ out = <<>>
    /\ prevOut = <<>>
    /\ calls = <<>>
    /\ blocked = FALSE
    /\ runs = 0

Init ==
    /\ registry \in SeqsUpTo(StubRegistrations, MaxValidators)
    /\ ctx \in StubContexts
    /\ env = QuietEnv
    /\ InitDispatch

Spec == Init /\ [][Next]_vars

(***************************************************************************)
(* Initial states: a registry of the repository's validators, one Context  *)
(* and the world around it.                                                *)
(***************************************************************************)
Env(git, file, data, check) ==
    [git |-> git, file |-> file, data |-> data, check |-> check]

LintResult(success, rawOut, timedOut) ==
    [Success |-> success, RawOut |-> rawOut, timedOut |-> timedOut]

Cmd_CheckoutFeat == <<"g", "i", "t", " ", "c", "h", "e", "c", "k", "o", "u", "t", " ", "-", "b", " ", "f", "e", "a", "t", "/", "a", "d", "d", "-", "x">>

Cmd_CheckoutBadType == <<"g", "i", "t", " ", "c", "h", "e", "c", "k", "o", "u", "t", " ", "-", "b", " ", "f", "o", "o", "/", "b", "a", "r">>

Cmd_CheckoutUpper == <<"g", "i", "t", " ", "c", "h", "e", "c", "k", "o", "u", "t", " ", "-", "b", " ", "F", "e", "a", "t", "/", "X">>

Cmd_BranchSpaces == <<"g", "i", "t", " ", "b", "r", "a", "n", "c", "h", " ", "m", "y", " ", "f", "e", "a", "t", "u", "r", "e">>

Cmd_BareGit == <<"g", "i", "t">>

Cmd_BareGitThenBad == <<"g", "i", "t", " ", "&", "&", " ", "g", "i", "t", " ", "b", "r", "a", "n", "c", "h", " ", "b", "a", "d">>

Cmd_AddTmp == <<"g", "i", "t", " ", "a", "d", "d", " ", "t", "m", "p", "/", "x", " ", "a", ".", "t", "x", "t">>

Cmd_AddDot == <<"g", "i", "t", " ", "a", "d", "d", " ", ".">>

Cmd_OpenQuote == <<"g", "i", "t", " ", "a", "d", "d", " ", "'", "t", "m", "p", "/", "x">>

Cmd_TrailingBackslash == <<"g", "i", "t", " ", "b", "r", "a", "n", "c", "h", " ", "x", "\\">>

Cmd_BadTypeAndTmp == <<"g", "i", "t", " ", "c", "h", "e", "c", "k", "o", "u", "t", " ", "-", "b", " ", "w", "i", "p", "/", "x", ";", " ", "g", "i", "t", " ", "a", "d", "d", " ", "t", "m", "p", "/", "y">>

Cmd_Ls == <<"l", "s", " ", "-", "l", "a">>

Cmd_Empty == <<>>

RepoCommands ==
    { Cmd_CheckoutFeat,
      Cmd_CheckoutBadType,
      Cmd_CheckoutUpper,
      Cmd_BranchSpaces,
      Cmd_BareGit,
      Cmd_BareGitThenBad,
      Cmd_AddTmp,
      Cmd_AddDot,
      Cmd_OpenQuote,
      Cmd_TrailingBackslash,
      Cmd_BadTypeAndTmp,
      Cmd_Ls,
      Cmd_Empty }

File_Sh == <<"a", ".", "s", "h">>

File_Fish == <<"c", "o", "n", "f", ".", "d", "/", "a", ".", "f", "i", "s", "h">>

Text_Script == <<"l", "s", " ", "$", "x">>

Text_FishScript == <<"#", "!", "/", "b", "i", "n", "/", "f", "i", "s", "h", "\n", "l", "s">>

Text_Findings == <<"\n", "I", "n", " ", "-", " ", "l", "i", "n", "e", " ", "1", ":", "\n", " ", " ", "\n", "S", "C", "2", "0", "8", "6", ":", " ", "q", "u", "o", "t", "e", "\n">>

GitOutcomes == {"root", "notrepo", "timeout"}

FileOutcomes == {"missing", "unreadable", "readable"}

CheckOutcomes ==
    { LintResult(TRUE, <<>>, FALSE),
      LintResult(FALSE, Text_Findings, FALSE),
      LintResult(FALSE, <<>>, TRUE),
      LintResult(TRUE, <<>>, TRUE) }

\* A Bash invocation: the command and the state of the git repository matter.
BashScenarios ==
    { [ctx |-> Context("PreToolUse", "Bash", ToolInput(cmd, <<>>, <<>>, <<>>)),
       env |-> Env(g, "missing", <<>>, LintResult(TRUE, <<>>, FALSE))] :
        cmd \in RepoCommands, g \in GitOutcomes }

FileInputs ==
    { ToolInput(<<>>, fp[1], fp[2], content) :
        fp \in { <<<<>>, <<>>>>, <<File_Sh, <<>>>>, <<File_Fish, <<>>>>,
                 <<<<>>, File_Sh>> },
        content \in {<<>>, Text_Script} }

\* A Write invocation: the file, its content and the linter matter.
WriteScenarios ==
    { [ctx |-> Context("PreToolUse", "Write", ti),
       env |-> Env("root", f, data, check)] :
        ti \in FileInputs, f \in FileOutcomes,
        data \in {Text_Script, Text_FishScript}, check \in CheckOutcomes }

RepoPredicate == Predicate({"PreToolUse"}, {"Bash", "Write", "Edit", "MultiEdit"})

RepoRegistrations ==
    { Registration(v, RepoPredicate) :
        v \in {BranchValidator, AddValidator, ShellScriptValidator} }

InitRepo ==
    /\ registry \in SeqsUpTo(RepoRegistrations, MaxRepoValidators)
    /\ \E sc \in BashScenarios \cup WriteScenarios :
           ctx = sc.ctx /\ env = sc.env
    /\ InitDispatch

SpecRepo == InitRepo /\ [][Next]_vars

(***************************************************************************)
(* FormatErrors called on its own, on any sequence of ValidationErrors.    *)
(***************************************************************************)
\* The dispatcher is not running.
InitNoDispatch ==
    /\ registry = <<>>
    /\ ctx = Context("PreToolUse", "Bash", NoInput)
    /\ env = QuietEnv
    /\ pc = "idle"
    /\ validators = <<>>
    /\ idx = 1
    /\ validationErrors = <<>>
    /\ out = <<>>
    /\ prevOut = <<>>
    /\ calls = <<>>
    /\ blocked = FALSE
    /\ runs = 0

dispatchVars ==
    <<registry, ctx, env, pc, validators, idx, validationErrors, out, prevOut,
      calls, blocked, runs>>

Called(fn, arg, val) == [fn |-> fn, arg |-> arg, val |-> val]

SampleErrors ==
    { ValidationError("validate-branch-name", Fail("Invalid branch type")),
      ValidationError("validate-git-add",
                      AddDetail(AddDetail(Fail("tmp files"), "help", "use .gitignore"),
                                "doc", "see README")),
      ValidationError("validate-style", Warn("style warning")),
      ValidationError("validate-notes", AddDetail(Warn("note"), "help", "hint")),
      ValidationError("validate-late", Warn("Invalid branch type")) }

CallFormatErrors ==
    /\ returned = NoCall
    /\ \E orders \in DetailOrders(input) :
           returned' = Called("FormatErrors", input, FormatErrors(input, orders))
    /\ UNCHANGED <<input, dispatchVars>>

InitFormat ==
    /\ input \in SeqsUpTo(SampleErrors, MaxErrors)
    /\ returned = NoCall
    /\ InitNoDispatch

NextFormat == CallFormatErrors

SpecFormat == InitFormat /\ [][NextFormat]_vars

(***************************************************************************)
(* The parsing layer and BranchValidator.Validate called on their own, on  *)
(* command lines drawn from bounded sets.                                  *)
(***************************************************************************)
\* Every text over the characters the tokenizer treats specially, and a letter.
RawChars == {"a", " ", "'", "\"", "\\", ";", "&", "|"}

RawLines == SeqsUpTo(RawChars, MaxRawLen)

\* git command lines: `git` and some words, one blank between two words.
GitWords ==
    { T_checkout, T_branch, T_add, <<"s", "t", "a", "t", "u", "s">>,
      T_DashB, T_DashBigD, T_DashChmod, <<"-", "f">>,
      T_main, <<"B", "a", "d">>, <<"x">>, <<"'", "'">>, <<"f", "e", "a", "t", "/", "x">> }

GitLines ==
    { Join(<<T_git>> \o ws, <<" ">>) : ws \in SeqsUpTo(GitWords, MaxGitArgs) }

\* git command lines that create or delete a branch, with some more words.
GitFrames ==
    { <<<<T_git, T_checkout, T_DashB>>, <<>>>>,
      <<<<T_git, T_checkout>>, <<T_DashB>>>>,
      <<<<T_git, T_branch>>, <<>>>>,
      <<<<T_git, T_branch, T_DashBigD>>, <<>>>> }

FramedLines ==
    { Join(frame[1] \o ws \o frame[2], <<" ">>) :
        frame \in GitFrames, ws \in SeqsUpTo(GitWords, MaxGitArgs - 1) }

\* Branch names: every text over a few characters, and a type with a
\* description.
NameChars == {"a", "B", "/", "-", "1", "_"}

BranchNames ==
    (SeqsUpTo(NameChars, MaxNameLen) \ {<<>>})
    \cup { t \o <<"/">> \o d :
             t \in {ValidBranchTypeKeys[i] : i \in 1..Len(ValidBranchTypeKeys)} \cup {<<"f", "o", "o">>, <<"F", "e", "a", "t">>},
             d \in {<<"a">>, <<"a", "d", "d", "-", "1">>, <<"A">>, <<"a", "_", "b">>} }
    \cup { T_main, T_master, <<"M", "a", "i", "n">> }

BranchLines ==
    { T_git \o <<" ">> \o T_checkout \o <<" ">> \o T_DashB \o <<" ">> \o n : n \in BranchNames }
    \cup { T_git \o <<" ">> \o T_branch \o <<" ">> \o n : n \in BranchNames }

Line_QuotedOperators == <<"e", "c", "h", "o", " ", "\"", "a", " ", "&", "&", " ", "b", "\"", " ", "&", "&", " ", "g", "i", "t", " ", "a", "d", "d", " ", "'", "x", ";", "y", "'">>

Line_QuotedCommand == <<"e", "c", "h", "o", " ", "'", "g", "i", "t", " ", "c", "h", "e", "c", "k", "o", "u", "t", " ", "-", "b", " ", "B", "a", "d", "'">>

OtherLines ==
    RepoCommands
    \cup { Line_QuotedOperators,
           <<"g", "i", "t", " ", "b", "r", "a", "n", "c", "h", " ", "-", "d", " ", "B", "a", "d">>,
           <<"g", "i", "t", " ", "b", "r", "a", "n", "c", "h", " ", "-", "-", "d", "e", "l", "e", "t", "e", " ", "B", "a", "d", " ", "x">>,
           <<"g", "i", "t", " ", "c", "h", "e", "c", "k", "o", "u", "t", " ", "-", "b", " ", "f", "e", "a", "t", "/", "a", " ", "&", "&", " ", "g", "i", "t", " ", "b", "r", "a", "n", "c", "h", " ", "B", "a", "d">>,
           Line_QuotedCommand,
           <<"g", "i", "t", " ", "s", "t", "a", "t", "u", "s", ";", " ", "g", "i", "t", " ", "c", "h", "e", "c", "k", "o", "u", "t", " ", "B", "a", "d", " ", "|", " ", "l", "s">> }

\* Chains of up to MaxChain commands, `;` between two of them.
ChainParts ==
    { <<"l", "s">>,
      T_git,
      Join(<<T_git, <<"f", "e", "t", "c", "h">> >>, <<" ">>),
      Join(<<T_git, T_checkout, T_DashB, T_main>>, <<" ">>),
      Join(<<T_git, T_branch, <<"f", "i", "x", "/", "a">> >>, <<" ">>),
      Join(<<T_git, T_branch, <<"B", "a", "d">> >>, <<" ">>),
      Join(<<T_git, T_branch, <<"a", "/", "b">> >>, <<" ">>),
      Join(<<T_git, T_branch, <<"a">>, <<"b">> >>, <<" ">>) }

ChainLines == { Join(ps, <<";">>) : ps \in SeqsUpTo(ChainParts, MaxChain) }

CommandLines ==
    RawLines \cup GitLines \cup FramedLines \cup BranchLines \cup OtherLines
    \cup ChainLines

BashContext(command) ==
    Context("PreToolUse", "Bash", ToolInput(command, <<>>, <<>>, <<>>))

CallParse ==
    /\ returned = NoCall
    /\ returned' = Called("Parse", input, Parse(input))
    /\ UNCHANGED <<input, dispatchVars>>

\* ParseGitCommand on one of the Commands Parse returned.
CallParseGitCommand ==
    /\ returned.fn = "Parse"
    /\ returned.val.ok
    /\ \E j \in 1..Len(returned.val.Commands) :
           LET cmd == returned.val.Commands[j] IN
           returned' = Called("ParseGitCommand", cmd, ParseGitCommand(cmd))
    /\ UNCHANGED <<input, dispatchVars>>

CallBranchValidate ==
    /\ returned = NoCall
    /\ \E order \in MapOrders :
           returned' = Called("BranchValidator.Validate", input,
                              BranchValidate(BashContext(input), order))
    /\ UNCHANGED <<input, dispatchVars>>

InitParse ==
    /\ input \in CommandLines
    /\ returned = NoCall
    /\ InitNoDispatch

NextParse == CallParse \/ CallParseGitCommand \/ CallBranchValidate

SpecParse == InitParse /\ [][NextParse]_vars

(***************************************************************************)
(* Registry.FindValidators called on its own.                              *)
(***************************************************************************)
FindPredicates ==
    { Predicate({"PreToolUse"}, {"Bash"}),
      Predicate({"PreToolUse", "PostToolUse"}, {"Write", "Edit"}),
      NotificationPredicate({"bell"}),
      Predicate(EventTypes, ToolTypes \cup {""}) }

FindRegistrations ==
    { Registration(v, p) :
        v \in {BranchValidator, AddValidator, ShellScriptValidator},
        p \in FindPredicates }

NotificationContext(type) ==
    [Context("Notification", "", NoInput) EXCEPT !.NotificationType = type]

FindContexts ==
    { Context("PreToolUse", "Bash", NoInput),
      Context("PreToolUse", "Write", NoInput),
      Context("PostToolUse", "Edit", NoInput),
      Context("PostToolUse", "Bash", NoInput),
      NotificationContext("bell"),
      NotificationContext("idle") }

CallFindValidators ==
    /\ returned = NoCall
    /\ returned' = Called("FindValidators", ctx, FindValidators(registry, ctx))
    /\ UNCHANGED <<input, dispatchVars>>

InitFind ==
    /\ registry \in SeqsUpTo(FindRegistrations, MaxValidators)
    /\ ctx \in FindContexts
    /\ env = QuietEnv
    /\ pc = "idle"
    /\ validators = <<>>
    /\ idx = 1
    /\ validationErrors = <<>>
    /\ out = <<>>
    /\ prevOut = <<>>
    /\ calls = <<>>
    /\ blocked = FALSE
    /\ runs = 0
    /\ input = <<>>
    /\ returned = NoCall

NextFind == CallFindValidators

SpecFind == InitFind /\ [][NextFind]_vars

(***************************************************************************)
(* Properties of the dispatcher.                                           *)
(***************************************************************************)
Finished == pc \in {"done", "decided"}

AnyBlocking(errors) == \E i \in 1..Len(errors) : errors[i].ShouldBlock

Permuted(errors, p) == [i \in 1..Len(errors) |-> errors[p[i]]]

Count(s, e) == Cardinality({i \in 1..Len(s) : s[i] = e})

Range(s) == {s[i] : i \in 1..Len(s)}

IsFailure(call) == ~call.result.Passed

FailedCalls == SelectSeq(calls, IsFailure)

ErrorOfCall(call) ==
    [Validator |-> call.validator, Message |-> call.result.Message,
     Details |-> call.result.Details, ShouldBlock |-> call.result.ShouldBlock]

ErrorsOfCalls(cs) == [k \in 1..Len(cs) |-> ErrorOfCall(cs[k])]

\* C1: ShouldBlock of the errors Dispatch returned (the empty one included) is
\* true iff at least one error has ShouldBlock = true, and every permutation of
\* the errors gives the same answer.
C1_ShouldBlockIsOrReduction ==
    pc = "decided" =>
        /\ blocked <=> AnyBlocking(out)
        /\ \A p \in Permutations(1..Len(out)) :
               ShouldBlock(Permuted(out, p)) = blocked

C1_Witness ==
    /\ pc = "decided"
    /\ blocked
    /\ Len(out) >= 2
    /\ ~out[1].ShouldBlock

\* C2: when Dispatch has returned, its output holds one ValidationError for each
\* Validate call whose Result has Passed = false, none for a Result with
\* Passed = true, and each error carries the validator's name and the Result's
\* message, details and shouldBlock; so the output is as long as the number of
\* failed validators.
C2_OneErrorPerFailedValidator ==
    Finished =>
        /\ Len(out) = Len(FailedCalls)
        /\ \A e \in Range(out) \cup Range(ErrorsOfCalls(FailedCalls)) :
               Count(out, e) = Count(ErrorsOfCalls(FailedCalls), e)

C2_Witness ==
    /\ Finished
    /\ Len(calls) = 3
    /\ Len(out) = 2
    /\ \E k \in 1..Len(calls) : calls[k].result.Passed /\ calls[k].result.ShouldBlock
    /\ \E k \in 1..Len(out) : out[k].Details # NoDetails

\* C3: when Dispatch has returned, every validator FindValidators returned has
\* been invoked exactly once, also those after a blocking failure; two failing
\* validators give two errors.
C3_EveryValidatorRunsOnce ==
    Finished =>
        /\ Len(calls) = Len(validators)
        /\ \A j \in 1..Len(validators) :
               Cardinality({k \in 1..Len(calls) : calls[k].pos = j}) = 1
        /\ Len(FailedCalls) >= 2 => Len(out) >= 2

C3_Witness ==
    /\ Finished
    /\ Len(validators) >= 2
    /\ ~calls[1].result.Passed /\ calls[1].result.ShouldBlock
    /\ ~calls[2].result.Passed
    /\ Len(out) = 2

\* C4: the validators are invoked one after another in the order FindValidators
\* returned them, and the errors of the output are in that same order.
C4_RegistryOrder ==
    /\ \A k \in 1..Len(calls) :
           calls[k].pos = k /\ calls[k].validator = Name(validators[k])
    /\ pc = "loop" => Len(calls) = idx - 1
    /\ Finished => out = ErrorsOfCalls(FailedCalls)

C4_Witness ==
    /\ Finished
    /\ Len(out) >= 2
    /\ out[1] # out[2]
    /\ Len(calls) > Len(out)

InsertAt(s, k, e) == SubSeq(s, 1, k) \o <<e>> \o SubSeq(s, k + 1, Len(s))

NonBlockingErrors ==
    { ValidationError("validate-extra", Warn("style warning")),
      ValidationError("validate-extra", AddDetail(Warn("note"), "help", "hint")) }

\* C7: inserting one more non-blocking ValidationError at any position of the
\* errors leaves ShouldBlock as it was.
C7_NonBlockingInsertKeepsDecision ==
    pc = "decided" =>
        \A k \in 0..Len(out) : \A w \in NonBlockingErrors :
            ShouldBlock(InsertAt(out, k, w)) = blocked

C7_Witness ==
    /\ pc = "decided"
    /\ blocked
    /\ Len(out) >= 2
    /\ \A i \in 1..Len(out) : out[i].ShouldBlock

\* C10: Dispatch changes neither the Context nor the Registry, every validator
\* is handed the Context that was passed to Dispatch, and a Result that was
\* returned stays as it was returned.
C10_DispatchFrame ==
    /\ [](\A k \in 1..Len(calls) : calls[k].ctx = ctx)
    /\ [][/\ ctx' = ctx
          /\ registry' = registry
          /\ pc = "loop" => \A k \in 1..Len(calls) : calls'[k] = calls[k]]_vars

C10_Witness ==
    /\ Finished
    /\ Len(calls) >= 2
    /\ ~calls[1].result.Passed
    /\ calls[2].ctx = ctx

(***************************************************************************)
(* Properties of the repository's validators under the dispatcher.         *)
(***************************************************************************)
\* C6: a second Dispatch on the same Context with the same Registry returns
\* the same ValidationErrors, in order and in content.
C6_DispatchIdempotent ==
    (runs >= 2 /\ Finished) => out = prevOut

IsWarning(r) == ~r.Passed /\ ~r.ShouldBlock

CallsOf(name) == {k \in 1..Len(calls) : calls[k].validator = name}

CommandOf(call) == call.ctx.ToolInput.Command

IsGit(cmd) == cmd.Name = T_git

IsExtractable(cmd) == ParseGitCommand(cmd).ok

IsScannable(cmd) == ~IsGit(cmd) \/ IsExtractable(cmd)

\* The loop of BranchValidator.Validate meets a git sub-command that
\* ParseGitCommand rejects before it returns.
RECURSIVE MeetsUnextractable(_, _, _)
MeetsUnextractable(commands, i, order) ==
    IF i > Len(commands) THEN FALSE
    ELSE IF ~IsGit(commands[i]) THEN MeetsUnextractable(commands, i + 1, order)
    ELSE IF ~IsExtractable(commands[i]) THEN TRUE
    ELSE LET r == validateGitCommand(ParseGitCommand(commands[i]).cmd, order) IN
        IF ~r.isNil /\ ~r.result.Passed THEN FALSE
        ELSE MeetsUnextractable(commands, i + 1, order)

\* The parsing a validator asked for failed: Parse for both validators (the
\* AddValidator asks only once it has the git root), ParseGitCommand for the
\* BranchValidator.
ParsingFailed(call) ==
    LET parsed == Parse(CommandOf(call)) IN
    \/ /\ call.validator = Name(BranchValidator)
       /\ \/ ~parsed.ok
          \/ \A o \in MapOrders : MeetsUnextractable(parsed.Commands, 1, o)
    \/ /\ call.validator = Name(AddValidator)
       /\ ~getGitRootFails(env)
       /\ ~parsed.ok

ReadsFile(call) ==
    GetFilePath(call.ctx) # <<>> /\ call.ctx.ToolInput.Content = <<>>

RunsChecker(call) ==
    /\ GetFilePath(call.ctx) # <<>>
    /\ ReadsFile(call) => env.file = "readable"
    /\ ~isFishScript(GetFilePath(call.ctx),
                     IF ReadsFile(call) THEN env.data ELSE call.ctx.ToolInput.Content)

FileFailure(call) ==
    /\ call.validator = Name(ShellScriptValidator)
    /\ ReadsFile(call)
    /\ env.file \in {"missing", "unreadable"}

CheckerTimeout(call) ==
    /\ call.validator = Name(ShellScriptValidator)
    /\ RunsChecker(call)
    /\ env.check.timedOut

GitRootFailure(call) ==
    call.validator = Name(AddValidator) /\ env.git \in {"notrepo", "timeout"}

\* C9 as claimed: every such failure gives a Result with passed = false and
\* shouldBlock = false.
C9_InternalFailureAlwaysWarns ==
    \A k \in 1..Len(calls) :
        (FileFailure(calls[k]) \/ CheckerTimeout(calls[k]) \/ GitRootFailure(calls[k]))
            => IsWarning(calls[k].result)

\* C9 as amended: every such failure ends in a Result, never in a warning: a
\* file that cannot be stat'ed or read and a failed or timed-out git root
\* lookup give a passing Result (no ValidationError); a timed-out shellcheck
\* call gives a passing Result when the checker reports Success and a blocking
\* failure otherwise.
C9_InternalFailurePassesOrBlocks ==
    \A k \in 1..Len(calls) :
        LET call == calls[k] IN
        /\ (FileFailure(call) \/ GitRootFailure(call)) => call.result = Pass
        /\ CheckerTimeout(call) =>
               /\ call.result.Passed <=> env.check.Success
               /\ ~call.result.Passed => call.result.ShouldBlock
        /\ (FileFailure(call) \/ GitRootFailure(call) \/ CheckerTimeout(call))
               => /\ ~IsWarning(call.result)
                  /\ Finished =>
                         (\E j \in 1..Len(out) : out[j].Validator = call.validator)
                             <=> ~call.result.Passed

C9_Witness ==
    /\ Finished
    /\ \E k \in 1..Len(calls) : GitRootFailure(calls[k]) /\ env.git = "timeout"
                                 /\ ~Parse(CommandOf(calls[k])).ok
    /\ out = <<>>

C9_WitnessFile ==
    /\ Finished
    /\ \E k \in 1..Len(calls) : FileFailure(calls[k])

C9_WitnessTimeout ==
    /\ Finished
    /\ \E k \in 1..Len(calls) : CheckerTimeout(calls[k]) /\ ~calls[k].result.Passed

(***************************************************************************)
(* Properties of FormatErrors.                                             *)
(***************************************************************************)
IsBlockingError(e) == e.ShouldBlock

IsWarningError(e) == ~e.ShouldBlock

\* Pieces one error takes: its message, one per detail, the closing line.
BlockLen(e) == 2 + Cardinality(DOMAIN e.Details)

RECURSIVE SumLen(_)
SumLen(errs) == IF Len(errs) = 0 THEN 0 ELSE BlockLen(Head(errs)) + SumLen(Tail(errs))

\* From position base + 1 of the output the errors errs are shown one after
\* another: the message, every key/value pair of the details once, an empty
\* line.
SectionShown(pieces, errs, base) ==
    \A j \in 1..Len(errs) :
        LET e == errs[j]
            n == Cardinality(DOMAIN e.Details)
            s == base + SumLen(SubSeq(errs, 1, j - 1)) + 1
        IN /\ pieces[s] = "  " \o e.Message \o "\n"
           /\ {pieces[s + i] : i \in 1..n}
                  = {"    " \o k \o ": " \o e.Details[k] \o "\n" : k \in DOMAIN e.Details}
           /\ pieces[s + n + 1] = "\n"

\* C11: the output of FormatErrors is empty for no errors; otherwise it is the
\* 'Validation Failed' header followed by every blocking error (message and
\* every key/value pair of its details, each error once, in input order), then
\* the 'Warnings' header followed by every non-blocking error in the same
\* way; a header is there only when its section has an error, and nothing
\* else is in the output.
C11_FormatErrorsShowsEveryError ==
    returned.fn = "FormatErrors" =>
        LET errors == returned.arg
            pieces == returned.val
            B == SelectSeq(errors, IsBlockingError)
            W == SelectSeq(errors, IsWarningError)
            hb == IF Len(B) > 0 THEN 1 ELSE 0
            hw == IF Len(W) > 0 THEN 1 ELSE 0
            wbase == hb + SumLen(B)
        IN /\ Len(errors) = 0 => pieces = <<>>
           /\ Len(pieces) = hb + SumLen(B) + hw + SumLen(W)
           /\ Len(B) > 0 => pieces[1] = FailedHeader /\ SectionShown(pieces, B, 1)
           /\ Len(W) > 0 => /\ pieces[wbase + 1] = WarningsHeader
                             /\ SectionShown(pieces, W, wbase + 1)
           /\ Cardinality({i \in 1..Len(pieces) : pieces[i] = FailedHeader}) = hb
           /\ Cardinality({i \in 1..Len(pieces) : pieces[i] = WarningsHeader}) = hw

C11_Witness ==
    /\ returned.fn = "FormatErrors"
    /\ Len(returned.arg) = 3
    /\ ~returned.arg[1].ShouldBlock
    /\ returned.arg[2].ShouldBlock /\ returned.arg[3].ShouldBlock
    /\ returned.arg[2] # returned.arg[3]
    /\ Cardinality(DOMAIN returned.arg[3].Details) = 2
    /\ returned.val[Len(returned.val) - 1] = "  style warning\n"

(***************************************************************************)
(* Properties of the tokenizer.  What Parse must return is stated from     *)
(* the role each character of the raw string plays: a quote mark, an       *)
(* escaping backslash, a separating blank, an operator character, or a     *)
(* literal character of a token.                                           *)
(***************************************************************************)
Reading(roles, mode, skip, dangling) ==
    [roles |-> roles, mode |-> mode, skip |-> skip, dangling |-> dangling]

\* The reading after the character at position i; a character that forms a
\* pair with the one before it (escaped character, second character of && or
\* ||) got its role together with that one.
ReadOne(rd, role, mode) == Reading(Append(rd.roles, role), mode, FALSE, FALSE)

ReadTwo(rd, role1, role2) ==
    Reading(rd.roles \o <<role1, role2>>, rd.mode, TRUE, FALSE)

RoleStep(rd, raw, i) ==
    LET c == raw[i]
        more == i < Len(raw)
    IN
    IF rd.skip THEN Reading(rd.roles, rd.mode, FALSE, FALSE)
    ELSE CASE rd.mode = "single" ->
                IF c = "'" THEN ReadOne(rd, "quote", "plain")
                ELSE ReadOne(rd, "lit", rd.mode)
           [] rd.mode = "double" ->
                IF c = "\"" THEN ReadOne(rd, "quote", "plain")
                ELSE IF c = "\\" /\ more /\ raw[i + 1] \in {"\"", "\\", "$"}
                     THEN ReadTwo(rd, "esc", "lit")
                ELSE ReadOne(rd, "lit", rd.mode)
           [] OTHER ->
                IF c = "\\" THEN
                    IF more THEN ReadTwo(rd, "esc", "lit")
                    ELSE Reading(Append(rd.roles, "esc"), rd.mode, FALSE, TRUE)
                ELSE IF c = "'" THEN ReadOne(rd, "quote", "single")
                ELSE IF c = "\"" THEN ReadOne(rd, "quote", "double")
                ELSE IF c \in {" ", "\t", "\n", "\r"} THEN ReadOne(rd, "space", rd.mode)
                ELSE IF c = ";" THEN ReadOne(rd, "op", rd.mode)
                ELSE IF c = "|" /\ more /\ raw[i + 1] = "|" THEN ReadTwo(rd, "op", "op")
                ELSE IF c = "|" THEN ReadOne(rd, "op", rd.mode)
                ELSE IF c = "&" /\ more /\ raw[i + 1] = "&" THEN ReadTwo(rd, "op", "op")
                ELSE ReadOne(rd, "lit", rd.mode)

RECURSIVE RolesFrom(_, _, _)
RolesFrom(rd, raw, i) ==
    IF i > Len(raw) \/ rd.dangling THEN rd
    ELSE RolesFrom(RoleStep(rd, raw, i), raw, i + 1)

Roles(raw) == RolesFrom(Reading(<<>>, "plain", FALSE, FALSE), raw, 1)

\* Quotes are balanced and no backslash is left without a character to escape.
WellQuoted(raw) == LET rd == Roles(raw) IN rd.mode = "plain" /\ ~rd.dangling

HasOperator(raw) ==
    LET roles == Roles(raw).roles IN \E i \in 1..Len(roles) : roles[i] = "op"

RECURSIVE Ascending(_)
Ascending(S) ==
    IF S = {} THEN <<>>
    ELSE LET m == CHOOSE x \in S : \A y \in S : x <= y
         IN <<m>> \o Ascending(S \ {m})

InToken(role) == role \in {"lit", "quote", "esc"}

\* The tokens of a well-quoted raw string: the maximal runs of characters
\* that are neither separating blanks nor operators, each with the literal
\* characters of its run as its text.
TokenSpans(raw) ==
    LET roles == Roles(raw).roles
        starts == {a \in 1..Len(roles) :
                      InToken(roles[a]) /\ (a = 1 \/ ~InToken(roles[a - 1]))}
        ends == {b \in 1..Len(roles) :
                    InToken(roles[b]) /\ (b = Len(roles) \/ ~InToken(roles[b + 1]))}
        ordered == Ascending(starts)
        closing == Ascending(ends)
        TextOf(a, b) ==
            LET lits == Ascending({p \in a..b : roles[p] = "lit"})
            IN [k \in 1..Len(lits) |-> raw[lits[k]]]
    IN [k \in 1..Len(ordered) |->
            [a |-> ordered[k], b |-> closing[k], text |-> TextOf(ordered[k], closing[k])]]

TokenTexts(raw) ==
    LET spans == TokenSpans(raw) IN [k \in 1..Len(spans) |-> spans[k].text]

\* The segments of a well-quoted raw string: its tokens, cut wherever an
\* operator stands between two of them.
Segments(raw) ==
    LET roles == Roles(raw).roles
        spans == TokenSpans(raw)
        firsts == {k \in 1..Len(spans) :
                      k = 1 \/ \E p \in spans[k - 1].b..spans[k].a : roles[p] = "op"}
        ordered == Ascending(firsts)
        LastOf(j) == IF j = Len(ordered) THEN Len(spans) ELSE ordered[j + 1] - 1
    IN [j \in 1..Len(ordered) |->
            [k \in 1..(LastOf(j) - ordered[j] + 1) |-> spans[ordered[j] + k - 1].text]]

Words(cmd) == <<cmd.Name>> \o cmd.Args

WordsOfAll(cmds) == [j \in 1..Len(cmds) |-> Words(cmds[j])]

ParseReturned == returned.fn = "Parse"

\* C12: for a well-quoted raw string with an operator (&&, ||, ; or |) outside
\* quotes, Parse returns one Command per segment that has a token, in left to
\* right order, each Command holding the tokens of its segment; operator
\* characters inside quotes or behind a backslash are literal characters and
\* split nothing.
C12_OneCommandPerSegment ==
    (ParseReturned /\ WellQuoted(returned.arg)) =>
        /\ returned.val.ok
        /\ HasOperator(returned.arg) =>
               WordsOfAll(returned.val.Commands) = Segments(returned.arg)
        /\ ~HasOperator(returned.arg) => Len(returned.val.Commands) <= 1

\* `echo "a && b" && git add 'x;y'`: two commands, the quoted operators stay.
C12_Witness ==
    /\ ParseReturned
    /\ returned.arg = Line_QuotedOperators
    /\ returned.val.Commands =
           << Command(<<"e", "c", "h", "o">>, << <<"a", " ", "&", "&", " ", "b">> >>),
              Command(T_git, <<T_add, <<"x", ";", "y">> >>) >>

\* C13 as claimed: for a well-quoted raw string without operators, Parse
\* returns exactly one Command and its args is the whole token list.
C13_ArgsIsTokenList ==
    (ParseReturned /\ WellQuoted(returned.arg) /\ ~HasOperator(returned.arg)) =>
        /\ returned.val.ok
        /\ Len(returned.val.Commands) = 1
        /\ returned.val.Commands[1].Args = TokenTexts(returned.arg)

\* C13 as amended: for a well-quoted raw string without operators, Parse
\* returns no Command when the string has no token (it is empty or blank) and
\* otherwise exactly one Command, whose name is the first token and whose
\* args is the rest of the whitespace-split, de-quoted token list, in the
\* original order and with the literal content.
C13_NameAndArgsAreTokenList ==
    (ParseReturned /\ WellQuoted(returned.arg) /\ ~HasOperator(returned.arg)) =>
        LET tokens == TokenTexts(returned.arg) IN
        /\ returned.val.ok
        /\ IF Len(tokens) = 0
           THEN returned.val.Commands = <<>>
           ELSE /\ Len(returned.val.Commands) = 1
                /\ returned.val.Commands[1].Name = Head(tokens)
                /\ returned.val.Commands[1].Args = Tail(tokens)

\* `echo 'git checkout -b Bad'`: one Command, the quoted text is one argument.
C13_Witness ==
    /\ ParseReturned
    /\ returned.arg = Line_QuotedCommand
    /\ Len(returned.val.Commands) = 1
    /\ returned.val.Commands[1].Name = <<"e", "c", "h", "o">>
    /\ Len(returned.val.Commands[1].Args) = 1
    /\ Len(returned.val.Commands[1].Args[1]) = 19

\* C14: on a raw string with an unterminated single or double quote or with a
\* trailing unescaped backslash, Parse returns an error and no Command, also
\* when complete commands precede the failure; and it returns an error on no
\* other string.
C14_HardParseFailure ==
    ParseReturned =>
        /\ ~WellQuoted(returned.arg) =>
               /\ ~returned.val.ok
               /\ returned.val.err # ""
               /\ returned.val.Commands = <<>>
        /\ WellQuoted(returned.arg) => returned.val.ok

\* `a;a'`: two complete commands, then a quote that never closes.
C14_Witness ==
    /\ ParseReturned
    /\ returned.arg = <<"a", ";", "a", "'">>
    /\ ~returned.val.ok
    /\ returned.val.Commands = <<>>

C14_WitnessBackslash ==
    /\ ParseReturned
    /\ returned.arg = <<"a", "|", "a", "\\">>
    /\ ~returned.val.ok

(***************************************************************************)
(* Properties of the git command extractor.                                *)
(***************************************************************************)
GitReturned ==
    /\ returned.fn = "ParseGitCommand"
    /\ returned.arg.Name = T_git
    /\ Len(returned.arg.Args) >= 1

StartsWithDash(token) == Len(token) > 0 /\ Head(token) = "-"

\* The flags known to take a value: -b of checkout, --chmod of add.
TakesValue(subcommand, token) ==
    \/ subcommand = T_checkout /\ token = T_DashB
    \/ subcommand = T_add /\ token = T_DashChmod

\* The token at position p is the value of the flag before it.
RECURSIVE IsFlagValue(_, _, _)
IsFlagValue(tokens, subcommand, p) ==
    /\ p > 1
    /\ TakesValue(subcommand, tokens[p - 1])
    /\ ~IsFlagValue(tokens, subcommand, p - 1)

Without(tokens, p) == SubSeq(tokens, 1, p - 1) \o SubSeq(tokens, p + 1, Len(tokens))

Pick(tokens, positions) ==
    LET ps == Ascending(positions) IN [k \in 1..Len(ps) |-> tokens[ps[k]]]

\* The GitCommand the invariant of the data model asks for, the subcommand
\* being the token at position p.
Extracted(tokens, p) ==
    LET rest == Without(tokens, p)
        InFlags(q) == StartsWithDash(rest[q]) \/ IsFlagValue(rest, tokens[p], q)
    IN GitCommand(tokens[p],
                  Pick(rest, {q \in 1..Len(rest) : InFlags(q)}),
                  Pick(rest, {q \in 1..Len(rest) : ~InFlags(q)}))

\* C15: for a Command named git with at least one argument, subcommand is the
\* first token that is not a flag; flags holds every flag token and, right
\* after each flag known to take a value, that value; args holds the
\* remaining tokens in their order, and no flag value.
C15_SubcommandIsFirstNonFlag ==
    (GitReturned /\ \E p \in 1..Len(returned.arg.Args) :
                        ~StartsWithDash(returned.arg.Args[p])) =>
        LET tokens == returned.arg.Args
            first == CHOOSE p \in 1..Len(tokens) :
                         /\ ~StartsWithDash(tokens[p])
                         /\ \A q \in 1..(p - 1) : StartsWithDash(tokens[q])
        IN /\ returned.val.ok
           /\ returned.val.cmd = Extracted(tokens, first)

\* The same for the commands whose first argument is not a flag, and the
\* subcommand as the extractor takes it: the first argument, flag or not.
C15_HoldsWhenSubcommandLeads ==
    GitReturned =>
        /\ returned.val.ok
        /\ returned.val.cmd = Extracted(returned.arg.Args, 1)

(***************************************************************************)
(* Properties of BranchValidator on one git command.                       *)
(***************************************************************************)
ValidateReturned == returned.fn = "BranchValidator.Validate"

\* The line is one git command with a subcommand.
OneGitCommand(raw) ==
    LET pr == Parse(raw) IN
    /\ pr.ok
    /\ Len(pr.Commands) = 1
    /\ pr.Commands[1].Name = T_git
    /\ Len(pr.Commands[1].Args) >= 1

\* Its words after `git`.
GitTokens(raw) == Parse(raw).Commands[1].Args

IsPositional(token) == ~StartsWithDash(token)

\* `git checkout ... -b`: -b occurs once, as the last word.
CheckoutEndsWithB(tokens) ==
    /\ Len(tokens) >= 2
    /\ tokens[1] = T_checkout
    /\ tokens[Len(tokens)] = T_DashB
    /\ \A q \in 1..(Len(tokens) - 1) : tokens[q] # T_DashB

\* A flag that takes a value is the last word and is not itself a value.
ValueFlagIsLast(tokens) ==
    /\ Len(tokens) >= 2
    /\ TakesValue(tokens[1], tokens[Len(tokens)])
    /\ ~IsFlagValue(Tail(tokens), tokens[1], Len(tokens) - 1)

\* The extractor's part of C16: the flag is the last entry of flags, nothing
\* follows it and every word is in flags or in args.
LastFlagIsValueLess ==
    (GitReturned /\ ValueFlagIsLast(returned.arg.Args)) =>
        LET tokens == returned.arg.Args
            g == returned.val.cmd
        IN /\ returned.val.ok
           /\ Len(g.Flags) >= 1
           /\ g.Flags[Len(g.Flags)] = tokens[Len(tokens)]
           /\ Len(g.Flags) + Len(g.Args) = Len(tokens) - 1
           /\ \A q \in 1..Len(g.Args) : g.Args[q] # tokens[Len(tokens)]

\* C16 as claimed: a flag that expects a value and is the last word is
\* recorded as a value-less flag, and BranchValidator on `git checkout ... -b`
\* finds no branch name and returns a passing Result.
C16_TrailingFlagAlwaysPasses ==
    /\ LastFlagIsValueLess
    /\ (ValidateReturned /\ OneGitCommand(returned.arg)
           /\ CheckoutEndsWithB(GitTokens(returned.arg)))
          => returned.val = Pass

\* C16 as amended: a flag that expects a value and is the last word is
\* recorded as a value-less flag; BranchValidator on `git checkout ... -b`
\* then takes the first positional argument as the branch name: it returns a
\* passing Result when there is none (or it is empty), the verdict of the
\* naming rules on it when it is the only one, and the 'contains spaces'
\* failure when there are more.
C16_TrailingFlagFallsBackToArgs ==
    /\ LastFlagIsValueLess
    /\ (ValidateReturned /\ OneGitCommand(returned.arg)
           /\ CheckoutEndsWithB(GitTokens(returned.arg)))
          => LET names == SelectSeq(Tail(GitTokens(returned.arg)), IsPositional) IN
             /\ (Len(names) = 0 \/ names[1] = <<>>) => returned.val = Pass
             /\ (Len(names) = 1 /\ names[1] # <<>>)
                    => \E o \in MapOrders : returned.val = validateBranchName(names[1], o)
             /\ (Len(names) > 1 /\ names[1] # <<>>) => returned.val = createSpaceError

\* `git checkout Bad -b`: Bad is taken as the name and fails the naming rules.
C16_Witness ==
    /\ ValidateReturned
    /\ returned.arg = Join(<<T_git, T_checkout, <<"B", "a", "d">>, T_DashB>>, <<" ">>)
    /\ ~returned.val.Passed
    /\ returned.val.ShouldBlock

C16_WitnessNoName ==
    /\ ValidateReturned
    /\ returned.arg = Join(<<T_git, T_checkout, T_DashB>>, <<" ">>)
    /\ returned.val = Pass

(***************************************************************************)
(* Properties of the registry.                                             *)
(***************************************************************************)
\* The predicate holds for the context's event type, tool name and
\* notification type.
Holds(p, c) ==
    /\ c.EventType \in p.events
    /\ c.ToolName \in p.tools
    /\ ("notifications" \in DOMAIN p) => (c.NotificationType \in p.notifications)

\* C17: FindValidators returns exactly the registered validators whose
\* predicate holds for the context, in registration order, the empty
\* sequence when none does; and the registry is as it was.
C17_FindValidatorsSelectsInOrder ==
    /\ [](returned.fn = "FindValidators" =>
            LET matching == Ascending({i \in 1..Len(registry) :
                                          Holds(registry[i].predicate, returned.arg)})
            IN /\ returned.arg = ctx
               /\ Len(returned.val) = Len(matching)
               /\ \A k \in 1..Len(matching) :
                      returned.val[k] = registry[matching[k]].validator
               /\ Len(matching) = 0 => returned.val = <<>>)
    /\ [][registry' = registry]_vars

\* Three registrations, the first and the last apply, the second does not.
C17_Witness ==
    /\ returned.fn = "FindValidators"
    /\ Len(registry) = 3
    /\ ctx.EventType = "Notification"
    /\ returned.val = <<AddValidator, BranchValidator>>
    /\ registry[2].validator = ShellScriptValidator

C17_WitnessNone ==
    /\ returned.fn = "FindValidators"
    /\ Len(registry) = 3
    /\ returned.val = <<>>

\* The flags and positional arguments the words after `git` stand for.
Reference(tokens) == Extracted(tokens, 1)

\* -b of `git checkout` is followed by a word, which is its value.
ValueOfB(tokens) ==
    LET rest == Tail(tokens)
        q == CHOOSE q \in 1..(Len(rest) - 1) :
                 /\ rest[q] = T_DashB
                 /\ \A r \in 1..(q - 1) : rest[r] # T_DashB
    IN rest[q + 1]

HasValueOfB(tokens) ==
    /\ tokens[1] = T_checkout
    /\ \E q \in 1..(Len(tokens) - 2) : tokens[q + 1] = T_DashB

HasWord(tokens, word) == \E q \in 2..Len(tokens) : tokens[q] = word

IsDelete(tokens) ==
    HasWord(tokens, T_DashD) \/ HasWord(tokens, T_DashBigD) \/ HasWord(tokens, T_DashDelete)

\* C18 as claimed: `git checkout -b <name>` with a positional argument left
\* over, `git checkout ... -b` with more than one positional argument and
\* `git branch` with more than one positional argument fail with the
\* 'contains spaces' message, whatever the name.
C18_ExtraArgumentAlwaysSpaceError ==
    (ValidateReturned /\ OneGitCommand(returned.arg)) =>
        LET tokens == GitTokens(returned.arg)
            args == Reference(tokens).Args
        IN /\ (HasValueOfB(tokens) /\ Len(args) > 0) => returned.val = createSpaceError
           /\ (tokens[1] = T_checkout /\ HasWord(tokens, T_DashB) /\ ~HasValueOfB(tokens)
                 /\ Len(args) > 1) => returned.val = createSpaceError
           /\ (tokens[1] = T_branch /\ Len(args) > 1) => returned.val = createSpaceError

\* C18 as amended: the same, for a name that is not the empty string and for
\* `git branch` without -d, -D or --delete; the Result is the blocking
\* 'contains spaces' failure whatever the non-empty name is, never a parse
\* warning.  With an empty name, or with a delete flag on `git branch`, the
\* Result is a pass.
C18_ExtraArgumentSpaceError ==
    (ValidateReturned /\ OneGitCommand(returned.arg)) =>
        LET tokens == GitTokens(returned.arg)
            args == Reference(tokens).Args
            spaces == /\ returned.val = createSpaceError
                      /\ ~returned.val.Passed /\ returned.val.ShouldBlock
        IN /\ (HasValueOfB(tokens) /\ Len(args) > 0) =>
                  IF ValueOfB(tokens) = <<>> THEN returned.val = Pass ELSE spaces
           /\ (tokens[1] = T_checkout /\ HasWord(tokens, T_DashB) /\ ~HasValueOfB(tokens)
                 /\ Len(args) > 1) =>
                  IF args[1] = <<>> THEN returned.val = Pass ELSE spaces
           /\ (tokens[1] = T_branch /\ Len(args) > 1) =>
                  IF IsDelete(tokens) \/ args[1] = <<>> THEN returned.val = Pass ELSE spaces

\* `git checkout -b main x`: a protected name, and still the spaces failure.
C18_Witness ==
    /\ ValidateReturned
    /\ returned.arg = Join(<<T_git, T_checkout, T_DashB, T_main, <<"x">> >>, <<" ">>)
    /\ returned.val = createSpaceError

C18_WitnessBranch ==
    /\ ValidateReturned
    /\ returned.arg = Join(<<T_git, T_branch, T_main, <<"x">> >>, <<" ">>)
    /\ returned.val = createSpaceError

C18_WitnessArgs ==
    /\ ValidateReturned
    /\ returned.arg = Join(<<T_git, T_checkout, T_main, <<"x">>, T_DashB>>, <<" ">>)
    /\ returned.val = createSpaceError

(***************************************************************************)
(* Properties of the naming rules.                                         *)
(***************************************************************************)
SmallLetters == {"a", "b", "c", "d", "e", "f", "g", "h", "i", "j", "k", "l", "m", "n", "o", "p", "q", "r", "s", "t", "u", "v", "w", "x", "y", "z"}

CapitalOf ==
    "A" :> "a" @@ "B" :> "b" @@ "C" :> "c" @@ "D" :> "d" @@ "E" :> "e" @@ "F" :> "f"
    @@ "G" :> "g" @@ "H" :> "h" @@ "I" :> "i" @@ "J" :> "j" @@ "K" :> "k" @@ "L" :> "l"
    @@ "M" :> "m" @@ "N" :> "n" @@ "O" :> "o" @@ "P" :> "p" @@ "Q" :> "q" @@ "R" :> "r"
    @@ "S" :> "s" @@ "T" :> "t" @@ "U" :> "u" @@ "V" :> "v" @@ "W" :> "w" @@ "X" :> "x"
    @@ "Y" :> "y" @@ "Z" :> "z"

HasCapital(name) == \E i \in 1..Len(name) : name[i] \in DOMAIN CapitalOf

Lowered(name) ==
    [i \in 1..Len(name) |->
        IF name[i] \in DOMAIN CapitalOf THEN CapitalOf[name[i]] ELSE name[i]]

\* ^[a-z]+/[a-z0-9-]+$
WellFormed(name) ==
    \E k \in 1..Len(name) :
        /\ name[k] = "/"
        /\ 1 < k /\ k < Len(name)
        /\ \A i \in 1..(k - 1) : name[i] \in SmallLetters
        /\ \A i \in (k + 1)..Len(name) :
               name[i] \in SmallLetters \cup {"0", "1", "2", "3", "4", "5", "6", "7", "8", "9", "-"}

TypePrefix(name) ==
    Str(SubSeq(name, 1, (CHOOSE k \in 1..Len(name) : name[k] = "/") - 1))

KnownTypes ==
    <<"feat", "fix", "docs", "style", "refactor", "test", "chore", "ci", "build", "perf">>

\* The listings of the known types the 'Invalid branch type' message may end in.
TypeListings ==
    { JoinStr([i \in 1..Len(KnownTypes) |-> KnownTypes[((i - 1 + o) % Len(KnownTypes)) + 1]],
              ", ") : o \in MapOrders }

\* The name BranchValidator validates on `git checkout -b <name>` and on
\* `git branch <name>`.
NamedBranch(tokens) ==
    IF Len(tokens) = 3 /\ tokens[1] = T_checkout /\ tokens[2] = T_DashB THEN tokens[3]
    ELSE IF Len(tokens) = 2 /\ tokens[1] = T_branch /\ ~StartsWithDash(tokens[2])
         THEN tokens[2]
    ELSE <<>>

Blocks(result, message) ==
    ~result.Passed /\ result.ShouldBlock /\ result.Message = message

\* C19: a branch name passes iff it is main or master, or it has no uppercase
\* character, matches ^[a-z]+/[a-z0-9-]+$ and its type is one of the ten
\* known types; the checks run in the order protected, uppercase, format,
\* type: a name with an uppercase character fails with the 'lowercase'
\* message that suggests the lowercased name, a lowercase name off the
\* pattern fails with the 'type/description' message, a name on the pattern
\* with an unknown type fails with 'Invalid branch type'.
C19_NamingRules ==
    (ValidateReturned /\ OneGitCommand(returned.arg)
       /\ NamedBranch(GitTokens(returned.arg)) # <<>>) =>
        LET name == NamedBranch(GitTokens(returned.arg))
            r == returned.val
            known == WellFormed(name)
                     /\ \E i \in 1..Len(KnownTypes) : KnownTypes[i] = TypePrefix(name)
        IN /\ r.Passed <=> (\/ name \in {T_main, T_master}
                            \/ ~HasCapital(name) /\ known)
           /\ r.Passed => r = Pass
           /\ IF name \in {T_main, T_master} THEN r.Passed
              ELSE IF HasCapital(name) THEN
                  Blocks(r, "Branch name must be lowercase\n\n"
                            \o "Branch name '" \o Str(name)
                            \o "' contains uppercase characters\n\n"
                            \o "Use: " \o Str(Lowered(name)))
              ELSE IF ~WellFormed(name) THEN
                  Blocks(r, "Branch name must follow type/description format\n\n"
                            \o "Branch name '" \o Str(name) \o "' doesn't match pattern\n\n"
                            \o "Expected format: <type>/<description>\n"
                            \o "Valid types: feat, fix, docs, style, refactor, test, chore, "
                            \o "ci, build, perf\n\n"
                            \o "Example: feat/add-user-auth or fix/login-bug-123")
              ELSE IF ~known THEN
                  \E listing \in TypeListings :
                      Blocks(r, "Invalid branch type\n\n"
                                \o "Branch type '" \o TypePrefix(name) \o "' is not valid\n\n"
                                \o "Valid types: " \o listing)
              ELSE r.Passed

\* `git checkout -b Feat/add-1`: off the pattern as well, and the message is
\* the 'lowercase' one.
C19_Witness ==
    /\ ValidateReturned
    /\ returned.arg = Join(<<T_git, T_checkout, T_DashB,
                             <<"F", "e", "a", "t", "/", "a", "d", "d", "-", "1">> >>, <<" ">>)
    /\ returned.val.Message = "Branch name must be lowercase\n\n"
                               \o "Branch name 'Feat/add-1' contains uppercase characters\n\n"
                               \o "Use: feat/add-1"

C19_WitnessPass ==
    /\ ValidateReturned
    /\ returned.arg = Join(<<T_git, T_branch,
                             <<"p", "e", "r", "f", "/", "a", "d", "d", "-", "1">> >>, <<" ">>)
    /\ returned.val = Pass

C19_WitnessType ==
    /\ ValidateReturned
    /\ returned.arg = Join(<<T_git, T_branch, <<"a", "/", "1">> >>, <<" ">>)
    /\ ~returned.val.Passed

(***************************************************************************)
(* Properties of the commands BranchValidator leaves alone.                *)
(***************************************************************************)
\* `git branch` with -d, -D or --delete, `git checkout` without -b, another
\* git subcommand, or not git at all.
LeftAlone(cmd) ==
    \/ cmd.Name # T_git
    \/ /\ Len(cmd.Args) >= 1
       /\ \/ cmd.Args[1] \notin {T_checkout, T_branch}
          \/ cmd.Args[1] = T_checkout /\ ~HasWord(cmd.Args, T_DashB)
          \/ cmd.Args[1] = T_branch /\ IsDelete(cmd.Args)

\* C20: on a command line all of whose commands are `git branch` with -d, -D
\* or --delete, `git checkout` without -b, other git subcommands or non-git
\* commands, BranchValidator returns a passing Result, whatever names the
\* commands carry.
C20_PassesWithoutExaminingNames ==
    (ValidateReturned /\ Parse(returned.arg).ok
       /\ \A j \in 1..Len(Parse(returned.arg).Commands) :
              LeftAlone(Parse(returned.arg).Commands[j]))
        => returned.val = Pass

\* `git branch --delete Bad x`: two names, none is looked at.
C20_Witness ==
    /\ ValidateReturned
    /\ returned.arg = Join(<<T_git, T_branch, T_DashDelete, <<"B", "a", "d">>, <<"x">> >>,
                           <<" ">>)
    /\ returned.val = Pass

C20_WitnessCheckout ==
    /\ ValidateReturned
    /\ returned.arg = Join(<<T_git, T_checkout, <<"B", "a", "d">> >>, <<" ">>)
    /\ returned.val = Pass


(***************************************************************************)
(* Properties of BranchValidator on a chained command line.                *)
(***************************************************************************)
\* Branch validation of one command of the chain fails.
FailsBranchValidation(cmd, order) ==
    /\ cmd.Name = T_git
    /\ ParseGitCommand(cmd).ok
    /\ LET r == validateGitCommand(ParseGitCommand(cmd).cmd, order) IN
       ~r.isNil /\ ~r.result.Passed

Least(S) == CHOOSE j \in S : \A k \in S : j <= k

\* C21: on a command line that parses, BranchValidator fails iff branch
\* validation of at least one git command of the chain fails, and the Result
\* it returns is the one of the first such command, in left-to-right order:
\* the commands before it, passing ones and protected branches included, do
\* not stop the scan and the commands after it have no part in the Result.
C21_FirstFailureDecides ==
    (ValidateReturned /\ Parse(returned.arg).ok) =>
        LET cmds == Parse(returned.arg).Commands IN
        \E order \in MapOrders :
            LET failing == { j \in 1..Len(cmds) : FailsBranchValidation(cmds[j], order) } IN
            /\ returned.val.Passed <=> failing = {}
            /\ failing = {} => returned.val = Pass
            /\ failing # {} =>
                   returned.val =
                       validateGitCommand(ParseGitCommand(cmds[Least(failing)]).cmd,
                                          order).result

\* `git checkout -b main;git branch fix/a;git branch Bad`: a protected branch
\* and a passing name come first, the third command fails.
C21_Witness ==
    /\ ValidateReturned
    /\ returned.arg = Join(<<Join(<<T_git, T_checkout, T_DashB, T_main>>, <<" ">>),
                             Join(<<T_git, T_branch, <<"f", "i", "x", "/", "a">> >>, <<" ">>),
                             Join(<<T_git, T_branch, <<"B", "a", "d">> >>, <<" ">>)>>,
                           <<";">>)
    /\ ~returned.val.Passed
    /\ returned.val.Message = "Branch name must be lowercase\n\n"
                               \o "Branch name 'Bad' contains uppercase characters\n\n"
                               \o "Use: bad"

\* `git branch a b;git branch Bad`: both fail, the Result is the first one's.
C21_WitnessFirstOfTwo ==
    /\ ValidateReturned
    /\ returned.arg = Join(<<Join(<<T_git, T_branch, <<"a">>, <<"b">> >>, <<" ">>),
                             Join(<<T_git, T_branch, <<"B", "a", "d">> >>, <<" ">>)>>,
                           <<";">>)
    /\ returned.val = createSpaceError

(***************************************************************************)
(* AddValidator.Validate called on its own, on `git add` command lines,    *)
(* inside and outside a git repository.                                    *)
(***************************************************************************)
AddWords ==
    { <<"t", "m", "p", "/", "x">>, T_TmpPrefix, <<"t", "m", "p">>,
      <<".", "/", "t", "m", "p", "/", "x">>,
      <<"a", "/", ".", ".", "/", "t", "m", "p", "/", "y">>,
      <<"t", "m", "p", "/", ".", ".", "/", "x">>,
      <<"t", "m", "p", "/", "/", "x">>,
      <<"s", "r", "c", "/", "t", "m", "p", "/", "x">>,
      <<"t", "m", "p", "x">>, <<"a", ".", "t", "x", "t">>,
      T_Dot, <<"-", "f">>, T_DashChmod, <<"+", "x">>, <<"'", "'">> }

AddCommands(n) ==
    { Join(<<T_git, T_add>> \o ws, <<" ">>) : ws \in SeqsUpTo(AddWords, n) }

\* Commands that are not `git add`.
NotAddCommands ==
    { T_git,
      <<"l", "s", " ", "t", "m", "p", "/", "x">>,
      <<"g", "i", "t", " ", "r", "m", " ", "t", "m", "p", "/", "x">>,
      <<"g", "i", "t", " ", "-", "f", " ", "a", "d", "d", " ", "t", "m", "p", "/", "x">> }

AddLines ==
    AddCommands(MaxAddArgs)
    \cup NotAddCommands
    \cup { a \o <<" ", "&", "&", " ">> \o b :
             a \in AddCommands(1) \cup NotAddCommands, b \in AddCommands(1) }
    \cup { Cmd_OpenQuote, <<>> }

CallAddValidate ==
    /\ returned = NoCall
    /\ returned' = Called("AddValidator.Validate", input,
                          AddValidate(BashContext(input), env))
    /\ UNCHANGED <<input, dispatchVars>>

InitAdd ==
    /\ input \in AddLines
    /\ returned = NoCall
    /\ env \in { Env(g, "missing", <<>>, QuietEnv.check) : g \in GitOutcomes }
    /\ registry = <<>>
    /\ ctx = Context("PreToolUse", "Bash", NoInput)
    /\ pc = "idle"
    /\ validators = <<>>
    /\ idx = 1
    /\ validationErrors = <<>>
    /\ out = <<>>
    /\ prevOut = <<>>
    /\ calls = <<>>
    /\ blocked = FALSE
    /\ runs = 0

NextAdd == CallAddValidate

SpecAdd == InitAdd /\ [][NextAdd]_vars

(***************************************************************************)
(* Properties of AddValidator.                                             *)
(***************************************************************************)
AddReturned == returned.fn = "AddValidator.Validate"

\* The directories a relative path walks through, by its first n components:
\* `.` and an empty component stay, `..` goes one up.
RECURSIVE Walk(_, _)
Walk(parts, n) ==
    IF n = 0 THEN <<>>
    ELSE LET before == Walk(parts, n - 1)
             part == parts[n]
         IN IF part \in {<<>>, T_Dot} THEN before
            ELSE IF part = T_DotDot /\ Len(before) > 0 /\ before[Len(before)] # T_DotDot
                 THEN SubSeq(before, 1, Len(before) - 1)
            ELSE Append(before, part)

Location(path) == Walk(Split(path, "/"), Len(Split(path, "/")))

\* The path, relative to the repository, is the tmp directory.
NamesTmpDirectory(path) ==
    /\ Len(path) > 0
    /\ path[1] # "/"
    /\ Location(path) = << <<"t", "m", "p">> >>

\* The path is a file or a directory under tmp.
NamesFileUnderTmp(path) ==
    /\ Len(path) > 0
    /\ path[1] # "/"
    /\ Len(Location(path)) >= 2
    /\ Location(path)[1] = <<"t", "m", "p">>

\* The positions of the path arguments of `git add <args>`: not a flag, not
\* the value that follows --chmod, not `.`, not blank.
RECURSIVE IsChmodValue(_, _)
IsChmodValue(args, p) ==
    /\ p > 1
    /\ args[p - 1] = T_DashChmod
    /\ ~IsChmodValue(args, p - 1)

PathArguments(args) ==
    LET at == { p \in 1..Len(args) :
                  /\ ~IsChmodValue(args, p)
                  /\ ~StartsWithDash(args[p])
                  /\ args[p] # T_Dot
                  /\ \E k \in 1..Len(args[p]) : args[p][k] \notin Whitespace }
    IN Pick(args, at)

IsGitAdd(cmd) == cmd.Name = T_git /\ Len(cmd.Args) >= 1 /\ cmd.Args[1] = T_add

\* The path arguments of every `git add` of the chain, left to right.
RECURSIVE PathsOfChain(_)
PathsOfChain(cmds) ==
    IF Len(cmds) = 0 THEN <<>>
    ELSE (IF IsGitAdd(Head(cmds)) THEN PathArguments(Tail(Head(cmds).Args)) ELSE <<>>)
         \o PathsOfChain(Tail(cmds))

NamesTmp(path) == NamesTmpDirectory(path) \/ NamesFileUnderTmp(path)

AddFailure(result) ==
    /\ ~result.Passed
    /\ result.ShouldBlock
    /\ result.Message = "Attempting to add files from tmp/ directory"

\* The failure lists the paths, written without `.`, `..` and empty
\* components, one per line.
ListsPaths(result, paths) ==
    /\ DOMAIN result.Details = {"help"}
    /\ result.Details["help"] =
           "Files in tmp/ should be in .gitignore or .git/info/exclude\n\n"
           \o "Files being added:\n"
           \o FileList([j \in 1..Len(paths) |-> Join(Location(paths[j]), <<"/">>)])
           \o "\nAdd tmp/ to .git/info/exclude:\n"
           \o "  echo 'tmp/' >> .git/info/exclude"

\* C22: inside a git repository and for a command that parses, AddValidator
\* fails iff some path argument of some `git add` of the chain names the tmp
\* directory or a file under it, and the failure lists every such path;
\* otherwise it passes. Outside a git repository it passes.
C22_FailsIffTmpPath ==
    (AddReturned /\ Parse(returned.arg).ok) =>
        LET paths == SelectSeq(PathsOfChain(Parse(returned.arg).Commands), NamesTmp) IN
        IF env.git = "root"
        THEN IF Len(paths) > 0
             THEN AddFailure(returned.val) /\ ListsPaths(returned.val, paths)
             ELSE returned.val = Pass
        ELSE env.git = "notrepo" => returned.val = Pass

\* What the code does hold to: the same statement with the paths that name a
\* file under tmp, the tmp directory itself left out.
C22_HoldsForFilesUnderTmp ==
    (AddReturned /\ Parse(returned.arg).ok) =>
        LET paths == SelectSeq(PathsOfChain(Parse(returned.arg).Commands),
                               NamesFileUnderTmp) IN
        IF env.git = "root"
        THEN IF Len(paths) > 0
             THEN AddFailure(returned.val) /\ ListsPaths(returned.val, paths)
             ELSE returned.val = Pass
        ELSE returned.val = Pass

\* `git add tmp/` inside a repository passes.
C22_TmpDirectoryPasses ==
    /\ AddReturned
    /\ returned.arg = Join(<<T_git, T_add, T_TmpPrefix>>, <<" ">>)
    /\ env.git = "root"
    /\ returned.val = Pass

(***************************************************************************)
(* PatternDetector (secrets).                                              *)
(***************************************************************************)
\* A compiled pattern: a literal text, or a run of min or more characters of
\* a class ([class]{min,}, which matches the empty text when min is 0).
Literal(text) == [kind |-> "literal", text |-> text]

Run(class, min) == [kind |-> "run", class |-> class, min |-> min]

RECURSIVE RunLength(_, _, _)
RunLength(content, class, s) ==
    IF s < Len(content) /\ content[s + 1] \in class
    THEN 1 + RunLength(content, class, s + 1)
    ELSE 0

\* The length of the match of the pattern at byte offset s, -1 without one.
MatchAt(p, content, s) ==
    IF p.kind = "literal"
    THEN IF /\ s + Len(p.text) <= Len(content)
            /\ SubSeq(content, s + 1, s + Len(p.text)) = p.text
         THEN Len(p.text)
         ELSE -1
    ELSE IF RunLength(content, p.class, s) >= p.min
         THEN RunLength(content, p.class, s)
         ELSE -1

\* The leftmost match at or after pos, as <<start, end>>; <<>> without one.
LeftmostMatch(p, content, pos) ==
    LET starts == { s \in pos..Len(content) : MatchAt(p, content, s) >= 0 } IN
    IF starts = {} THEN <<>>
    ELSE LET s == CHOOSE s \in starts : \A t \in starts : s <= t
         IN <<s, s + MatchAt(p, content, s)>>

\* Regexp.FindAllStringIndex(content, -1): successive non-overlapping
\* matches; an empty match right after the match before it is dropped.
RECURSIVE AllMatchesFrom(_, _, _, _)
AllMatchesFrom(p, content, pos, prevMatchEnd) ==
    IF pos > Len(content) THEN <<>>
    ELSE LET m == LeftmostMatch(p, content, pos) IN
        IF m = <<>> THEN <<>>
        ELSE LET accept == ~(m[2] = pos /\ m[1] = prevMatchEnd)
                 next == IF m[2] = pos THEN pos + 1 ELSE m[2]
             IN (IF accept THEN <<m>> ELSE <<>>)
                \o AllMatchesFrom(p, content, next, m[2])

FindAllStringIndex(p, content) == AllMatchesFrom(p, content, 0, -1)

Finding(pattern, match, line, column) ==
    [Pattern |-> pattern, Match |-> match, Line |-> line, Column |-> column]

\* getPosition: the loop over lines from lineIdx (0-based) with pos the
\* offset of that line's first byte, and the fallback after the loop.
RECURSIVE getPositionFrom(_, _, _, _)
getPositionFrom(lines, offset, lineIdx, pos) ==
    IF lineIdx >= Len(lines)
    THEN [line |-> Len(lines), column |-> offset - pos + 1]
    ELSE LET lineEnd == pos + Len(lines[lineIdx + 1])
                        + (IF lineIdx < Len(lines) - 1 THEN 1 ELSE 0)
         IN IF offset < lineEnd
            THEN [line |-> lineIdx + 1, column |-> offset - pos + 1]
            ELSE getPositionFrom(lines, offset, lineIdx + 1, lineEnd)

getPosition(lines, offset) == getPositionFrom(lines, offset, 0, 0)

\* The findings of pattern i (Pattern holds the pointer &d.patterns[i]).
FindingsOfPattern(patterns, i, content, lines) ==
    LET matches == FindAllStringIndex(patterns[i], content) IN
    [ k \in 1..Len(matches) |->
        LET position == getPosition(lines, matches[k][1]) IN
        Finding(i, SubSeq(content, matches[k][1] + 1, matches[k][2]),
                position.line, position.column) ]

RECURSIVE DetectFrom(_, _, _, _)
DetectFrom(patterns, content, lines, i) ==
    IF i > Len(patterns) THEN <<>>
    ELSE FindingsOfPattern(patterns, i, content, lines)
         \o DetectFrom(patterns, content, lines, i + 1)

Detect(patterns, content) ==
    IF content = <<>> THEN <<>>
    ELSE DetectFrom(patterns, content, Split(content, "\n"), 1)

(***************************************************************************)
(* PatternDetector.Detect called on its own.                               *)
(***************************************************************************)
ContentChars == {"a", "b", "\n"}

Contents == SeqsUpTo(ContentChars, MaxContentLen)

Patterns ==
    { Literal(<<"a">>), Literal(<<"a", "b">>), Literal(<<"\n", "b">>),
      Run({"a"}, 1), Run({"b"}, 0), Run({"\n", "b"}, 1) }

DetectInputs ==
    { [patterns |-> ps, content |-> c] :
        ps \in SeqsUpTo(Patterns, MaxPatterns), c \in Contents }

CallDetect ==
    /\ returned = NoCall
    /\ returned' = Called("Detect", input, Detect(input.patterns, input.content))
    /\ UNCHANGED <<input, dispatchVars>>

InitDetect ==
    /\ input \in DetectInputs
    /\ returned = NoCall
    /\ InitNoDispatch

NextDetect == CallDetect

SpecDetect == InitDetect /\ [][NextDetect]_vars

(***************************************************************************)
(* Properties of PatternDetector.Detect.                                   *)
(***************************************************************************)
DetectReturned == returned.fn = "Detect"

\* The matches of every pattern, in the order of the patterns.
RECURSIVE MatchesFrom(_, _, _)
MatchesFrom(patterns, content, i) ==
    IF i > Len(patterns) THEN <<>>
    ELSE FindAllStringIndex(patterns[i], content) \o MatchesFrom(patterns, content, i + 1)

\* The text between the newlines: line n of the content (1-based).
NewlinesBefore(content, offset) == { k \in 1..offset : content[k] = "\n" }

LineCount(content) == Cardinality(NewlinesBefore(content, Len(content))) + 1

\* The bytes of the lines before line n, one newline each included.
BytesBeforeLine(content, n) ==
    IF n = 1 THEN 0
    ELSE CHOOSE k \in 1..Len(content) :
             content[k] = "\n" /\ Cardinality(NewlinesBefore(content, k)) = n - 1

PositionIsOffset(content, finding, offset) ==
    /\ finding.Line >= 1
    /\ finding.Line <= LineCount(content)
    /\ finding.Column >= 1
    /\ BytesBeforeLine(content, finding.Line) + finding.Column - 1 = offset

\* C23: Detect on empty content returns no findings; on other content every
\* Finding has the matched text as Match and the 1-indexed line and column of
\* the first byte of the match: the lengths of the lines before it, one
\* newline each, plus Column-1 is the byte offset of the match.
C23_FindingPositions ==
    DetectReturned =>
        LET content == returned.arg.content
            matches == MatchesFrom(returned.arg.patterns, content, 1)
            findings == returned.val
        IN /\ content = <<>> => findings = <<>>
           /\ content # <<>> =>
                  /\ Len(findings) = Len(matches)
                  /\ \A k \in 1..Len(findings) :
                         /\ findings[k].Match
                                = SubSeq(content, matches[k][1] + 1, matches[k][2])
                         /\ PositionIsOffset(content, findings[k], matches[k][1])

\* What the code does hold to: the same for the matches that start before
\* the end of the content, where the position also lies on its line.
C23_HoldsBeforeEnd ==
    DetectReturned =>
        LET content == returned.arg.content
            matches == MatchesFrom(returned.arg.patterns, content, 1)
            findings == returned.val
        IN /\ content = <<>> => findings = <<>>
           /\ content # <<>> =>
                  /\ Len(findings) = Len(matches)
                  /\ \A k \in 1..Len(findings) :
                         /\ findings[k].Match
                                = SubSeq(content, matches[k][1] + 1, matches[k][2])
                         /\ matches[k][1] < Len(content) =>
                                /\ PositionIsOffset(content, findings[k], matches[k][1])
                                /\ findings[k].Line
                                       = Cardinality(NewlinesBefore(content, matches[k][1])) + 1

\* [b]* on "aa": the empty match at the end of the content is reported at
\* line 1, column 1.
C23_EndOfContentAtColumnOne ==
    /\ DetectReturned
    /\ returned.arg = [patterns |-> <<Run({"b"}, 0)>>, content |-> <<"a", "a">>]
    /\ Len(returned.val) = 3
    /\ returned.val[3] = Finding(1, <<>>, 1, 1)

(***************************************************************************)
(* ExtractEditFragment (file validators).                                  *)
(***************************************************************************)
Min(a, b) == IF a <= b THEN a ELSE b

Max(a, b) == IF a >= b THEN a ELSE b

\* cmp.Or: the first of its arguments that is not the zero value.
cmpOr(a, b) == IF a # 0 THEN a ELSE b

\* strings.Index: the byte offset of the first occurrence, -1 without one.
Index(s, substr) ==
    LET at == { k \in 0..(Len(s) - Len(substr)) :
                  SubSeq(s, k + 1, k + Len(substr)) = substr }
    IN IF at = {} THEN -1 ELSE CHOOSE k \in at : \A j \in at : k <= j

\* strings.Replace(s, old, new, 1).
Replace(s, old, new) ==
    LET i == Index(s, old) IN
    IF i = -1 THEN s
    ELSE SubSeq(s, 1, i) \o new \o SubSeq(s, i + Len(old) + 1, Len(s))

\* The loop that finds the line of the start of oldStr, from line i (0-based).
RECURSIVE startLineFrom(_, _, _, _)
startLineFrom(lines, oldIdx, i, charCount) ==
    IF i >= Len(lines) THEN 0
    ELSE IF charCount + Len(lines[i + 1]) + 1 > oldIdx THEN i
    ELSE startLineFrom(lines, oldIdx, i + 1, charCount + Len(lines[i + 1]) + 1)

\* The loop that finds the line of the end of oldStr.
RECURSIVE endLineFrom(_, _, _, _)
endLineFrom(lines, endIdx, i, charCount) ==
    IF i >= Len(lines) THEN 0
    ELSE IF charCount + Len(lines[i + 1]) + 1 >= endIdx THEN i
    ELSE endLineFrom(lines, endIdx, i + 1, charCount + Len(lines[i + 1]) + 1)

\* contextStart and contextEnd of ExtractEditFragment (0-based lines), for
\* oldStr found at oldIdx (idx in the source).
contextRange(content, oldStr, contextLines) ==
    LET oldIdx == Index(content, oldStr)
        lines == Split(content, "\n")
        startLine == startLineFrom(lines, oldIdx, 0, 0)
        endLine == endLineFrom(lines, oldIdx + Len(oldStr), 0, 0)
    IN [contextStart |-> Max(0, startLine - contextLines),
        contextEnd |-> cmpOr(Min(endLine + contextLines, Len(lines) - 1),
                             Len(lines) - 1)]

RECURSIVE trailingCountFrom(_, _)
trailingCountFrom(lines, i) ==
    IF i < 1 THEN 0
    ELSE IF lines[i] # <<>> THEN 0
    ELSE 1 + trailingCountFrom(lines, i - 1)

trimTrailingEmptyLines(lines) ==
    LET trailingCount == trailingCountFrom(lines, Len(lines)) IN
    IF trailingCount > 1
    THEN SubSeq(lines, 1, Len(lines) - (trailingCount - 1))
    ELSE lines

ExtractEditFragment(content, oldStr, newStr, contextLines) ==
    IF Index(content, oldStr) = -1 THEN <<>>
    ELSE LET lines == Split(content, "\n")
             range == contextRange(content, oldStr, contextLines)
             fragmentLines ==
                 trimTrailingEmptyLines(
                     SubSeq(lines, range.contextStart + 1, range.contextEnd + 1))
         IN Replace(Join(fragmentLines, <<"\n">>), oldStr, newStr)

getFragmentStartLine(content, oldStr, contextLines) ==
    LET oldIdx == Index(content, oldStr) IN
    IF oldIdx = -1 THEN 0
    ELSE Max(0, startLineFrom(Split(content, "\n"), oldIdx, 0, 0) - contextLines)

(***************************************************************************)
(* ExtractEditFragment and getFragmentStartLine called on their own.       *)
(***************************************************************************)
EditChars == {"a", "\n"}

NewStrings == { <<>>, <<"x">>, <<"x", "\n">> }

EditInputs ==
    { [content |-> c, oldStr |-> o, newStr |-> n, contextLines |-> k] :
        c \in SeqsUpTo(EditChars, MaxFileLen),
        o \in SeqsUpTo(EditChars, MaxOldLen),
        n \in NewStrings,
        k \in 0..MaxContextLines }

CallExtractEditFragment ==
    /\ returned.fn # "ExtractEditFragment"
    /\ returned' = Called("ExtractEditFragment", input,
                          ExtractEditFragment(input.content, input.oldStr,
                                              input.newStr, input.contextLines))
    /\ UNCHANGED <<input, dispatchVars>>

CallGetFragmentStartLine ==
    /\ returned.fn # "getFragmentStartLine"
    /\ returned' = Called("getFragmentStartLine", input,
                          getFragmentStartLine(input.content, input.oldStr,
                                               input.contextLines))
    /\ UNCHANGED <<input, dispatchVars>>

InitEdit ==
    /\ input \in EditInputs
    /\ returned = NoCall
    /\ InitNoDispatch

NextEdit == CallExtractEditFragment \/ CallGetFragmentStartLine

SpecEdit == InitEdit /\ [][NextEdit]_vars

(***************************************************************************)
(* Properties of ExtractEditFragment.                                      *)
(***************************************************************************)
ExtractReturned == returned.fn = "ExtractEditFragment"

Newlines(s) == Cardinality({ k \in 1..Len(s) : s[k] = "\n" })

\* The line (0-based) of the byte at the offset.
LineOfOffset(content, offset) == Newlines(SubSeq(content, 1, offset))

\* The first and the last line of the edit: the lines of the first and of
\* the last byte of oldStr.
FirstEditedLine(content, oldStr) == LineOfOffset(content, Index(content, oldStr))

LastEditedLine(content, oldStr) ==
    IF oldStr = <<>> THEN FirstEditedLine(content, oldStr)
    ELSE LineOfOffset(content, Index(content, oldStr) + Len(oldStr) - 1)

\* C24: when oldStr occurs in content, the fragment starts at line
\* max(0, startLine - contextLines), the value of getFragmentStartLine,
\* covers the lines of the edit and ends no later than line
\* min(endLine + contextLines, last line): it has no more lines than that
\* range, for every contextLines >= 0 and every position of the edit.
C24_FragmentWithinContext ==
    (ExtractReturned /\ Index(returned.arg.content, returned.arg.oldStr) # -1) =>
        LET content == returned.arg.content
            oldStr == returned.arg.oldStr
            newStr == returned.arg.newStr
            contextLines == returned.arg.contextLines
            first == FirstEditedLine(content, oldStr)
            last == LastEditedLine(content, oldStr)
            from == Max(0, first - contextLines)
            to == Min(last + contextLines, Newlines(content))
            range == contextRange(content, oldStr, contextLines)
        IN /\ range.contextStart = from
           /\ getFragmentStartLine(content, oldStr, contextLines) = from
           /\ last <= range.contextEnd
           /\ range.contextEnd <= to
           /\ Newlines(returned.val) + 1
                  <= (to - from + 1) + Max(0, Newlines(newStr) - Newlines(oldStr))

\* What the code does hold to: the same when the last line of the range is
\* not line 0.
C24_HoldsWhenEndIsNotLineZero ==
    (/\ ExtractReturned
     /\ Index(returned.arg.content, returned.arg.oldStr) # -1
     /\ Min(LastEditedLine(returned.arg.content, returned.arg.oldStr)
                + returned.arg.contextLines,
            Newlines(returned.arg.content)) # 0)
        => C24_FragmentWithinContext

\* An edit of "a" on the first of three lines, without context: the fragment
\* is the whole content.
C24_WholeContentReturned ==
    /\ ExtractReturned
    /\ returned.arg = [content |-> <<"a", "\n", "a", "\n", "a">>, oldStr |-> <<"a">>,
                       newStr |-> <<"x">>, contextLines |-> 0]
    /\ returned.val = <<"x", "\n", "a", "\n", "a">>

\* The byte offset of the first byte of a line (0-based).
OffsetOfLine(content, line) ==
    IF line = 0 THEN 0
    ELSE CHOOSE k \in 1..Len(content) :
             content[k] = "\n" /\ Newlines(SubSeq(content, 1, k)) = line

\* The byte offset after the last byte of a line, its newline left out.
EndOfLine(content, line) ==
    IF line = Newlines(content) THEN Len(content)
    ELSE OffsetOfLine(content, line + 1) - 1

RECURSIVE WithoutTrailingNewlines(_)
WithoutTrailingNewlines(s) ==
    IF Len(s) > 0 /\ s[Len(s)] = "\n"
    THEN WithoutTrailingNewlines(SubSeq(s, 1, Len(s) - 1))
    ELSE s

\* The selected line range with the occurrence of oldStr that was located in
\* content replaced by newStr.
EditedRange(content, oldStr, newStr, contextLines) ==
    LET oldIdx == Index(content, oldStr)
        range == contextRange(content, oldStr, contextLines)
        from == OffsetOfLine(content, range.contextStart)
        to == EndOfLine(content, range.contextEnd)
    IN SubSeq(content, from + 1, oldIdx) \o newStr
       \o SubSeq(content, oldIdx + Len(oldStr) + 1, to)

\* C25: ExtractEditFragment returns the empty string when oldStr does not
\* occur in content; when it occurs, the fragment is the selected line range
\* with the occurrence located in content replaced by newStr, up to trailing
\* empty lines.
C25_FragmentReflectsEdit ==
    ExtractReturned =>
        LET content == returned.arg.content
            oldStr == returned.arg.oldStr
        IN IF Index(content, oldStr) = -1 THEN returned.val = <<>>
           ELSE WithoutTrailingNewlines(returned.val)
                    = WithoutTrailingNewlines(
                          EditedRange(content, oldStr, returned.arg.newStr,
                                      returned.arg.contextLines))

\* What the code does hold to: the same when oldStr does not end in a
\* newline.
C25_HoldsWhenOldStrEndsInsideALine ==
    (/\ ExtractReturned
     /\ \/ returned.arg.oldStr = <<>>
        \/ returned.arg.oldStr[Len(returned.arg.oldStr)] # "\n")
        => C25_FragmentReflectsEdit

\* "a\n" replaced by "x\n" on the second of three lines, without context:
\* the fragment is the line as it was.
C25_EditNotApplied ==
    /\ ExtractReturned
    /\ returned.arg = [content |-> <<"\n", "a", "\n", "a">>, oldStr |-> <<"a", "\n">>,
                       newStr |-> <<"x", "\n">>, contextLines |-> 0]
    /\ returned.val = <<"a">>

(***************************************************************************)
(* ShellScriptValidator.Validate called on its own, on a file, a content,  *)
(* a state of the file on disk and an outcome of the checker.              *)
(***************************************************************************)
ShellPaths ==
    { <<>>, File_Sh, File_Fish, <<".", "f", "i", "s", "h">>,
      <<"a", ".", "f", "i", "s", "h", ".", "s", "h">>, <<"f", "i", "s", "h">>,
      <<"a", ".", "f", "i", "s", "h", "/", "b">> }

ShellTexts ==
    { <<>>, Text_Script, Text_FishScript,
      <<"#", "!", "/", "u", "s", "r", "/", "b", "i", "n", "/", "e", "n", "v", " ",
        "f", "i", "s", "h", "\n">>,
      <<"#", "!", "/", "u", "s", "r", "/", "b", "i", "n", "/", "f", "i", "s", "h">>,
      <<"#", "!", "/", "b", "i", "n", "/", "s", "h", "\n", "f", "i", "s", "h">>,
      <<" ", "#", "!", "/", "b", "i", "n", "/", "f", "i", "s", "h">> }

ShellOutcomes ==
    CheckOutcomes
    \cup { LintResult(FALSE, <<"S", "C", "1", "\n", "\n", "\t", "\n", "S", "C", "2">>, FALSE),
           LintResult(FALSE, <<" ", "\n">>, FALSE) }

ShellContexts ==
    { Context("PreToolUse", "Write", ToolInput(<<>>, filePath, path, content)) :
        filePath \in {<<>>, File_Sh, File_Fish}, path \in ShellPaths,
        content \in ShellTexts }

ShellEnvs ==
    { Env("root", f, data, check) :
        f \in FileOutcomes, data \in {<<>>, Text_Script, Text_FishScript},
        check \in ShellOutcomes }

CallShellValidate ==
    /\ returned = NoCall
    /\ returned' = Called("ShellScriptValidator.Validate", ctx, ShellRun(ctx, env))
    /\ UNCHANGED <<input, dispatchVars>>

InitShell ==
    /\ input = <<>>
    /\ returned = NoCall
    /\ ctx \in ShellContexts
    /\ env \in ShellEnvs
    /\ registry = <<>>
    /\ pc = "idle"
    /\ validators = <<>>
    /\ idx = 1
    /\ validationErrors = <<>>
    /\ out = <<>>
    /\ prevOut = <<>>
    /\ calls = <<>>
    /\ blocked = FALSE
    /\ runs = 0

NextShell == CallShellValidate

SpecShell == InitShell /\ [][NextShell]_vars

(***************************************************************************)
(* Properties of ShellScriptValidator.                                     *)
(***************************************************************************)
ShellReturned == returned.fn = "ShellScriptValidator.Validate"

EndsWith(s, suffix) ==
    /\ Len(s) >= Len(suffix)
    /\ SubSeq(s, Len(s) - Len(suffix) + 1, Len(s)) = suffix

StartsWith(s, prefix) ==
    /\ Len(s) >= Len(prefix)
    /\ \A k \in 1..Len(prefix) : s[k] = prefix[k]

FishShebangs ==
    { <<"#", "!", "/", "u", "s", "r", "/", "b", "i", "n", "/", "e", "n", "v", " ",
        "f", "i", "s", "h">>,
      <<"#", "!", "/", "u", "s", "r", "/", "b", "i", "n", "/", "f", "i", "s", "h">>,
      <<"#", "!", "/", "b", "i", "n", "/", "f", "i", "s", "h">> }

\* The path handed to the validator and the content it would lint.
PathOf(c) == IF c.ToolInput.FilePath = <<>> THEN c.ToolInput.Path ELSE c.ToolInput.FilePath

NoContentToLint(c) ==
    c.ToolInput.Content = <<>> /\ env.file \in {"missing", "unreadable"}

ContentToLint(c) ==
    IF c.ToolInput.Content = <<>> THEN env.data ELSE c.ToolInput.Content

IsFish(c) ==
    \/ EndsWith(PathOf(c), <<".", "f", "i", "s", "h">>)
    \/ \E shebang \in FishShebangs : StartsWith(ContentToLint(c), shebang)

\* The lines of the output that have a character that is not white space.
RECURSIVE OutputLines(_)
OutputLines(output) ==
    LET breaks == { k \in 1..Len(output) : output[k] = "\n" }
        first == IF breaks = {} THEN Len(output) + 1
                 ELSE CHOOSE k \in breaks : \A j \in breaks : k <= j
        line == SubSeq(output, 1, first - 1)
        rest == IF breaks = {} THEN <<>>
                ELSE OutputLines(SubSeq(output, first + 1, Len(output)))
    IN IF \E k \in 1..Len(line) : line[k] \notin Whitespace
       THEN <<line>> \o rest
       ELSE rest

\* C26: Validate calls the checker at most once; it does not call it and
\* passes when the file path is empty, when the content is empty and the
\* file is missing or unreadable, and when the script is a Fish script; when
\* it calls the checker, the Result passes iff the checker reports Success
\* and is otherwise a blocking failure whose message holds the non-blank
\* lines of the checker's output.
C26_CheckerCalledAtMostOnce ==
    ShellReturned =>
        LET c == returned.arg
            run == returned.val
            skip == PathOf(c) = <<>> \/ NoContentToLint(c) \/ IsFish(c)
        IN /\ Len(run.checked) <= 1
           /\ skip => (run.checked = <<>> /\ run.result = Pass)
           /\ run.checked # <<>> =>
                  /\ ~skip
                  /\ run.result.Passed <=> env.check.Success
                  /\ env.check.Success => run.result = Pass
                  /\ ~env.check.Success =>
                         /\ run.result.ShouldBlock
                         /\ run.result.Message =
                                "Shellcheck validation failed\n\n"
                                \o JoinStr([k \in 1..Len(OutputLines(env.check.RawOut)) |->
                                              Str(OutputLines(env.check.RawOut)[k])], "\n")
                                \o "\n\nFix these issues before committing."

\* The checker ran on the file's content and reported two findings between
\* blank lines.
C26_Witness ==
    /\ ShellReturned
    /\ returned.arg.ToolInput.Content = <<>>
    /\ returned.arg.ToolInput.Path = File_Sh
    /\ returned.val.checked = <<Text_Script>>
    /\ returned.val.result.Message
           = "Shellcheck validation failed\n\nSC1\nSC2\n\nFix these issues before committing."

\* A script with a fish shebang in a file named a.sh: no call, a pass, though
\* the checker would fail.
C26_WitnessFish ==
    /\ ShellReturned
    /\ PathOf(returned.arg) = File_Sh
    /\ returned.arg.ToolInput.Content = Text_FishScript
    /\ ~env.check.Success
    /\ returned.val = [result |-> Pass, checked |-> <<>>]

C26_WitnessUnreadable ==
    /\ ShellReturned
    /\ PathOf(returned.arg) = File_Sh
    /\ returned.arg.ToolInput.Content = <<>>
    /\ env.file = "unreadable"
    /\ ~env.check.Success
    /\ returned.val = [result |-> Pass, checked |-> <<>>]

(***************************************************************************)
(* Markdown analysis (validators): DetectMarkdownState and AnalyzeMarkdown *)
(* with table formatting checks switched off (CheckTableFormatting false). *)
(***************************************************************************)
maxTruncateLength == 60

\* The character U+0060, which a string of this module cannot hold.
Backtick == "BACKTICK"

\* bufio.Scanner with ScanLines: the text between newlines, one trailing
\* carriage return dropped, and no line after a final newline.
DropCR(line) ==
    IF Len(line) > 0 /\ line[Len(line)] = "\r" THEN SubSeq(line, 1, Len(line) - 1)
    ELSE line

ScanLines(content) ==
    LET parts == Split(content, "\n")
        kept == IF parts[Len(parts)] = <<>> THEN SubSeq(parts, 1, Len(parts) - 1)
                ELSE parts
    IN [k \in 1..Len(kept) |-> DropCR(kept[k])]

\* The number of leading characters of the line that are in the class.
RECURSIVE LeadingFrom(_, _, _)
LeadingFrom(line, class, i) ==
    IF i <= Len(line) /\ line[i] \in class THEN 1 + LeadingFrom(line, class, i + 1)
    ELSE 0

Leading(line, class) == LeadingFrom(line, class, 1)

CharAt(line, i) == IF i >= 1 /\ i <= Len(line) THEN line[i] ELSE ""

\* codeBlockRegex: ^[[:space:]]* and three backticks.
isCodeBlockMarker(line) ==
    LET n == Leading(line, Whitespace) IN
    /\ CharAt(line, n + 1) = Backtick
    /\ CharAt(line, n + 2) = Backtick
    /\ CharAt(line, n + 3) = Backtick

\* listItemRegex: ^[[:space:]]*[-*+][[:space:]] or ^[[:space:]]*[0-9]+\.[[:space:]].
isListItem(line) ==
    LET n == Leading(line, Whitespace)
        d == LeadingFrom(line, Digits, n + 1)
    IN \/ CharAt(line, n + 1) \in {"-", "*", "+"} /\ CharAt(line, n + 2) \in Whitespace
       \/ d >= 1 /\ CharAt(line, n + d + 1) = "." /\ CharAt(line, n + d + 2) \in Whitespace

\* headerRegex: ^#+[[:space:]].
isHeader(line) ==
    LET n == Leading(line, {"#"}) IN
    n >= 1 /\ CharAt(line, n + 1) \in Whitespace

\* commentRegex: ^<!--.
isComment(line) == HasPrefix(line, <<"<", "!", "-", "-">>)

\* emptyLineRegex: ^[[:space:]]*$.
isEmptyLine(line) == Leading(line, Whitespace) = Len(line)

truncate(s) ==
    IF Len(s) <= maxTruncateLength THEN s ELSE SubSeq(s, 1, maxTruncateLength)

\* getListIndent: the leading space, the marker and one space after it.
getListIndent(line) ==
    LET n == Leading(line, Whitespace)
        d == LeadingFrom(line, Digits, n + 1)
    IN IF CharAt(line, n + 1) \in {"-", "*", "+"} /\ CharAt(line, n + 2) \in Whitespace
       THEN n + 1 + 1
       ELSE IF d >= 1 /\ CharAt(line, n + d + 1) = "." /\ CharAt(line, n + d + 2) \in Whitespace
       THEN n + d + 1 + 1
       ELSE 0

getIndentation(line) == Leading(line, {" ", "\t"})

MarkdownState(inCodeBlock) ==
    [InCodeBlock |-> inCodeBlock, StartLine |-> 0, EndsAtEOF |-> FALSE]

\* A nil *MarkdownState and a nil *listContext.
NilState == [isNil |-> TRUE]

NilList == [isNil |-> TRUE]

listContext(lineNum, indent, sawEmptyLineAfter) ==
    [isNil |-> FALSE, lineNum |-> lineNum, indent |-> indent,
     sawEmptyLineAfter |-> sawEmptyLineAfter]

\* The loop of DetectMarkdownState, from line i of the scanner (1-based).
RECURSIVE DetectFromLine(_, _, _, _)
DetectFromLine(lines, upToLine, i, inCodeBlock) ==
    IF i > Len(lines) \/ ~(i - 1 < upToLine) THEN inCodeBlock
    ELSE DetectFromLine(lines, upToLine, i + 1,
                        IF isCodeBlockMarker(lines[i]) THEN ~inCodeBlock ELSE inCodeBlock)

DetectMarkdownStateOneMore(content, upToLine) ==
    IF upToLine <= 0 THEN MarkdownState(FALSE)
    ELSE MarkdownState(DetectFromLine(ScanLines(content), upToLine + 1, 1, FALSE))

DetectMarkdownState(content, upToLine) ==
    IF upToLine <= 0 THEN MarkdownState(FALSE)
    ELSE MarkdownState(DetectFromLine(ScanLines(content), upToLine, 1, FALSE))

\* The warnings are written without the warning sign that opens them.
LineWarning(lineNum, text) == "Line " \o ToString(lineNum) \o ": " \o text

\* checkCodeBlock: the warnings it appends and the value it returns.
checkCodeBlock(line, prevLine, lineNum, inCodeBlock) ==
    IF ~isCodeBlockMarker(line) THEN [warnings |-> <<>>, inCodeBlock |-> inCodeBlock]
    ELSE IF ~inCodeBlock
    THEN [warnings |->
              IF ~isEmptyLine(prevLine) /\ prevLine # <<>>
              THEN << LineWarning(lineNum, "Code block should have empty line before it"),
                      "   Previous line: '" \o Str(truncate(prevLine)) \o "'" >>
              ELSE <<>>,
          inCodeBlock |-> TRUE]
    ELSE [warnings |-> <<>>, inCodeBlock |-> FALSE]

checkCodeBlockIndentation(line, lastList, lineNum) ==
    IF lastList.isNil THEN <<>>
    ELSE IF ~lastList.sawEmptyLineAfter THEN <<>>
    ELSE IF getIndentation(line) > 0 /\ getIndentation(line) < lastList.indent
    THEN << LineWarning(lineNum,
                        "Code block in list item should be indented by at least "
                        \o ToString(lastList.indent) \o " spaces"),
            "   Found: " \o ToString(getIndentation(line)) \o " spaces, expected: at least "
            \o ToString(lastList.indent) \o " spaces" >>
    ELSE <<>>

checkMultipleEmptyLinesBeforeCodeBlock(prevLine, prevPrevLine, lineNum) ==
    IF lineNum > 3 /\ isEmptyLine(prevLine) /\ isEmptyLine(prevPrevLine)
    THEN << LineWarning(lineNum,
                        "Code block should have only one empty line before it, not multiple"),
            "   Found multiple consecutive empty lines before code block" >>
    ELSE <<>>

shouldWarnAboutListSpacing(prevLine) ==
    /\ ~isEmptyLine(prevLine)
    /\ prevLine # <<>>
    /\ ~isListItem(prevLine)
    /\ ~isHeader(prevLine)

checkListItem(line, prevLine, lineNum) ==
    IF ~isListItem(line) THEN <<>>
    ELSE IF shouldWarnAboutListSpacing(prevLine)
    THEN << LineWarning(lineNum, "First list item should have empty line before it"),
            "   Previous line: '" \o Str(truncate(prevLine)) \o "'" >>
    ELSE <<>>

shouldWarnAboutHeaderSpacing(line) ==
    /\ line # <<>>
    /\ ~isEmptyLine(line)
    /\ ~isHeader(line)
    /\ ~isComment(line)
    /\ ~isListItem(line)

checkHeader(line, prevLine, lineNum) ==
    IF ~isHeader(prevLine) THEN <<>>
    ELSE IF shouldWarnAboutHeaderSpacing(line)
    THEN << LineWarning(lineNum - 1, "Header should have empty line after it"),
            "   Header: '" \o Str(truncate(prevLine)) \o "'",
            "   Next line: '" \o Str(truncate(line)) \o "'" >>
    ELSE <<>>

\* The variables of the loop of AnalyzeMarkdown; inside holds, line by line,
\* the value of inCodeBlock after the line's marker check.
Analysis(inCodeBlock) ==
    [lineNum |-> 0, prevLine |-> <<>>, prevPrevLine |-> <<>>,
     inCodeBlock |-> inCodeBlock, lastList |-> NilList, Warnings |-> <<>>,
     inside |-> <<>>]

\* The list context after the switch at the head of the loop body.
TrackList(lastList, line, lineNum) ==
    IF isListItem(line) THEN listContext(lineNum, getListIndent(line), FALSE)
    ELSE IF ~lastList.isNil /\ isEmptyLine(line)
    THEN [lastList EXCEPT !.sawEmptyLineAfter = TRUE]
    ELSE IF ~lastList.isNil /\ ~isEmptyLine(line) /\ ~isListItem(line)
            /\ ~isCodeBlockMarker(line)
    THEN NilList
    ELSE lastList

\* One pass of the loop body of AnalyzeMarkdown.
AnalyzeLine(st, line) ==
    LET lineNum == st.lineNum + 1
        tracked == TrackList(st.lastList, line, lineNum)
        block == checkCodeBlock(line, st.prevLine, lineNum, st.inCodeBlock)
        marker == IF isCodeBlockMarker(line)
                  THEN checkCodeBlockIndentation(line, tracked, lineNum)
                       \o checkMultipleEmptyLinesBeforeCodeBlock(st.prevLine,
                                                               st.prevPrevLine, lineNum)
                  ELSE <<>>
        items == IF ~block.inCodeBlock /\ lineNum > 1
                 THEN checkListItem(line, st.prevLine, lineNum)
                      \o checkHeader(line, st.prevLine, lineNum)
                 ELSE <<>>
    IN [lineNum |-> lineNum, prevLine |-> line, prevPrevLine |-> st.prevLine,
        inCodeBlock |-> block.inCodeBlock,
        lastList |-> IF isCodeBlockMarker(line) /\ ~block.inCodeBlock THEN NilList
                     ELSE tracked,
        Warnings |-> st.Warnings \o marker \o block.warnings \o items,
        inside |-> Append(st.inside, block.inCodeBlock)]

RECURSIVE AnalyzeFrom(_, _, _)
AnalyzeFrom(st, lines, i) ==
    IF i > Len(lines) THEN st
    ELSE AnalyzeFrom(AnalyzeLine(st, lines[i]), lines, i + 1)

\* AnalyzeMarkdown: its Warnings, with the trace of inCodeBlock.
AnalyzeMarkdown(content, initialState) ==
    LET start == Analysis(IF initialState = NilState THEN FALSE ELSE initialState.InCodeBlock)
        end == IF content = <<>> THEN start
               ELSE AnalyzeFrom(start, ScanLines(content), 1)
    IN [Warnings |-> end.Warnings, TableSuggested |-> <<>>, inside |-> end.inside]

(***************************************************************************)
(* DetectMarkdownState and AnalyzeMarkdown called on their own, on a       *)
(* content of up to MaxMdLines lines.                                      *)
(***************************************************************************)
MdLines ==
    { <<Backtick, Backtick, Backtick>>,
      <<" ", Backtick, Backtick, Backtick, "g", "o">>,
      <<"-", " ", "a">>, <<"#", " ", "h">>, <<"a">>, <<>>, <<"<", "!", "-", "-">> }

MdContents == { Join(ls, <<"\n">>) : ls \in SeqsUpTo(MdLines, MaxMdLines) }

\* The content from line k (0-based) on.
RECURSIVE DropLines(_, _)
DropLines(content, k) ==
    IF k <= 0 \/ content = <<>> THEN content
    ELSE LET breaks == { j \in 1..Len(content) : content[j] = "\n" } IN
         IF breaks = {} THEN <<>>
         ELSE DropLines(SubSeq(content,
                               (CHOOSE j \in breaks : \A i \in breaks : j <= i) + 1,
                               Len(content)),
                        k - 1)

CallDetectMarkdownState ==
    /\ returned = NoCall
    /\ \E upToLine \in (0 - 1)..(MaxMdLines + 1) :
           returned' = Called("DetectMarkdownState",
                              [content |-> input, upToLine |-> upToLine],
                              DetectMarkdownState(input, upToLine))
    /\ UNCHANGED <<input, dispatchVars>>

\* The whole content, from a fresh or a given state.
CallAnalyzeMarkdown ==
    /\ returned = NoCall
    /\ \E initialState \in {NilState, MarkdownState(FALSE), MarkdownState(TRUE)} :
           returned' = Called("AnalyzeMarkdown",
                              [content |-> input, initialState |-> initialState,
                               startLine |-> 0],
                              AnalyzeMarkdown(input, initialState))
    /\ UNCHANGED <<input, dispatchVars>>

\* The lines from upToLine on, from the state DetectMarkdownState returned.
CallAnalyzeFragment ==
    /\ returned.fn = "DetectMarkdownState"
    /\ LET fragment == DropLines(input, returned.arg.upToLine) IN
       returned' = Called("AnalyzeMarkdown",
                          [content |-> fragment, initialState |-> returned.val,
                           startLine |-> Max(0, returned.arg.upToLine)],
                          AnalyzeMarkdown(fragment, returned.val))
    /\ UNCHANGED <<input, dispatchVars>>

InitMarkdown ==
    /\ input \in MdContents
    /\ returned = NoCall
    /\ InitNoDispatch

NextMarkdown == CallDetectMarkdownState \/ CallAnalyzeMarkdown \/ CallAnalyzeFragment

SpecMarkdown == InitMarkdown /\ [][NextMarkdown]_vars

(***************************************************************************)
(* Properties of the markdown analysis.                                    *)
(***************************************************************************)
\* The lines of a content: the text between its newlines, none after a
\* final newline.
RECURSIVE LinesOf(_)
LinesOf(content) ==
    IF content = <<>> THEN <<>>
    ELSE LET breaks == { j \in 1..Len(content) : content[j] = "\n" } IN
         IF breaks = {} THEN <<content>>
         ELSE LET first == CHOOSE j \in breaks : \A i \in breaks : j <= i IN
              <<SubSeq(content, 1, first - 1)>>
              \o LinesOf(SubSeq(content, first + 1, Len(content)))

\* A code fence: three backticks after white space only.
IsFence(line) ==
    \E n \in 0..Len(line) :
        /\ \A k \in 1..n : line[k] \in Whitespace
        /\ Len(line) >= n + 3
        /\ \A k \in (n + 1)..(n + 3) : line[k] = Backtick

FencesAmong(lines, n) == Cardinality({ k \in 1..Min(n, Len(lines)) : IsFence(lines[k]) })

Odd(n) == n % 2 = 1

\* C27: DetectMarkdownState(content, k) returns InCodeBlock = TRUE iff the
\* number of fence lines among the first k lines is odd (FALSE for k <= 0),
\* and AnalyzeMarkdown on the lines from line k on, started in that state,
\* gives each line the status inside / outside a code block that
\* AnalyzeMarkdown on the whole content gives it from a fresh state.
C27_FragmentStateMatchesWholeFile ==
    /\ returned.fn = "DetectMarkdownState" =>
           returned.val.InCodeBlock
               <=> (returned.arg.upToLine > 0
                    /\ Odd(FencesAmong(LinesOf(returned.arg.content), returned.arg.upToLine)))
    /\ (returned.fn = "AnalyzeMarkdown" /\ returned.arg.initialState # NilState
        /\ returned.arg.content = DropLines(input, returned.arg.startLine)
        /\ returned.arg.initialState
               = DetectMarkdownState(input, returned.arg.startLine)) =>
           LET whole == AnalyzeMarkdown(input, NilState).inside
               k == returned.arg.startLine
           IN /\ Len(returned.val.inside) = Max(0, Len(whole) - k)
              /\ \A j \in 1..Len(returned.val.inside) :
                     returned.val.inside[j] = whole[k + j]

\* The fragment begins inside the code block that line 1 opened.
C27_Witness ==
    /\ returned.fn = "AnalyzeMarkdown"
    /\ input = Join(<< <<Backtick, Backtick, Backtick>>, <<"#", " ", "h">>,
                       <<Backtick, Backtick, Backtick>> >>, <<"\n">>)
    /\ returned.arg.startLine = 1
    /\ returned.arg.initialState = MarkdownState(TRUE)
    /\ returned.val.inside = <<TRUE, FALSE>>

C27_WitnessDetect ==
    /\ returned.fn = "DetectMarkdownState"
    /\ returned.arg.upToLine = 2
    /\ FencesAmong(LinesOf(returned.arg.content), 3) = 2
    /\ returned.val.InCodeBlock

\* The lines inside a fenced code block of the analysed content: not a fence
\* themselves, after an odd number of fences (one more when the analysis
\* starts inside a block).
InsideCodeBlock(content, initialState) ==
    LET lines == LinesOf(content)
        open == IF initialState # NilState /\ initialState.InCodeBlock THEN 1 ELSE 0
    IN { n \in 1..Len(lines) :
           ~IsFence(lines[n]) /\ Odd(open + FencesAmong(lines, n)) }

Warned(warnings, text) == \E k \in 1..Len(warnings) : warnings[k] = text

ListWarning(n) == LineWarning(n, "First list item should have empty line before it")

HeaderWarning(n) == LineWarning(n, "Header should have empty line after it")

\* C28: AnalyzeMarkdown produces no 'First list item should have empty line
\* before it' and no 'Header should have empty line after it' warning for a
\* line inside a fenced code block, for any content and any initial state.
C28_NoListOrHeaderWarningInsideCodeBlock ==
    returned.fn = "AnalyzeMarkdown" =>
        \A n \in InsideCodeBlock(returned.arg.content, returned.arg.initialState) :
            /\ ~Warned(returned.val.Warnings, ListWarning(n))
            /\ ~Warned(returned.val.Warnings, HeaderWarning(n))

\* What the code does hold to: no list warning for a line inside a code
\* block, and no header warning for a header inside a code block unless the
\* next line is the closing fence.
C28_HoldsExceptBeforeClosingFence ==
    returned.fn = "AnalyzeMarkdown" =>
        \A n \in InsideCodeBlock(returned.arg.content, returned.arg.initialState) :
            /\ ~Warned(returned.val.Warnings, ListWarning(n))
            /\ Warned(returned.val.Warnings, HeaderWarning(n)) =>
                   /\ n < Len(LinesOf(returned.arg.content))
                   /\ IsFence(LinesOf(returned.arg.content)[n + 1])

\* A fence, `# h`, a fence: the header warning is produced for line 2.
C28_HeaderWarningInsideCodeBlock ==
    /\ returned.fn = "AnalyzeMarkdown"
    /\ returned.arg.content = Join(<< <<Backtick, Backtick, Backtick>>, <<"#", " ", "h">>,
                                      <<Backtick, Backtick, Backtick>> >>, <<"\n">>)
    /\ returned.arg.initialState = NilState
    /\ returned.val.Warnings
           = << "Line 2: Header should have empty line after it",
                "   Header: '# h'",
                "   Next line: 'BACKTICKBACKTICKBACKTICK'" >>

(***************************************************************************)
(* pkg/mdtable: Table.  A cell is a sequence of characters; Wide stands    *)
(* for one East Asian character, three bytes of UTF-8 shown two columns    *)
(* wide.  Alignment and WidthMode keep the names of their constants.       *)
(***************************************************************************)
AlignLeft == "AlignLeft"
AlignCenter == "AlignCenter"
AlignRight == "AlignRight"
Alignment == {AlignLeft, AlignCenter, AlignRight}

WidthModeDisplay == "WidthModeDisplay"
WidthModeByte == "WidthModeByte"
WidthMode == {WidthModeDisplay, WidthModeByte}

minSeparatorWidth == 3
cellPadding == 2
halfDivisor == 2

Wide == "WIDE"

\* What an index outside a slice does to the call.
Panic == <<"panic: index out of range">>

Table(headers, alignments, rows, widthMode) ==
    [headers |-> headers, alignments |-> alignments, rows |-> rows,
     widthMode |-> widthMode]

New(headers) ==
    Table(headers, [i \in 1..Len(headers) |-> AlignLeft], <<>>, WidthModeDisplay)

SetWidthMode(t, mode) == [t EXCEPT !.widthMode = mode]

\* col counts from 0 as in the source.
SetAlignment(t, col, align) ==
    IF col >= 0 /\ col < Len(t.alignments)
    THEN [t EXCEPT !.alignments[col + 1] = align]
    ELSE t

SetAlignments(t, alignments) ==
    [t EXCEPT !.alignments =
        [i \in 1..Len(t.alignments) |->
            IF i <= Len(alignments) THEN alignments[i] ELSE t.alignments[i]]]

\* A mutant of AddRow: the cells are stored as they were given.
AddRowAsGiven(t, cells) == [t EXCEPT !.rows = Append(t.rows, cells)]

AddRow(t, cells) ==
    LET row == [i \in 1..Len(t.headers) |->
                   IF i <= Len(cells) THEN cells[i] ELSE <<>>]
    IN  [t EXCEPT !.rows = Append(t.rows, row)]

Repeat(c, n) == [k \in 1..n |-> c]

RECURSIVE TrimSpace(_)
TrimSpace(s) ==
    IF s = <<>> THEN s
    ELSE IF Head(s) \in {" ", "\n", "\r", "\t"} THEN TrimSpace(Tail(s))
    ELSE IF s[Len(s)] \in {" ", "\n", "\r", "\t"}
         THEN TrimSpace(SubSeq(s, 1, Len(s) - 1))
    ELSE s

\* strings.ReplaceAll of one character by another.
ReplaceAll(s, old, new) == [k \in 1..Len(s) |-> IF s[k] = old THEN new ELSE s[k]]

RECURSIVE escapePipesFrom(_, _)
escapePipesFrom(runes, i) ==
    IF i > Len(runes) THEN <<>>
    ELSE (IF runes[i] = "|"
          THEN IF i > 1 /\ runes[i - 1] = "\\" THEN <<"|">> ELSE <<"\\", "|">>
          ELSE <<runes[i]>>)
         \o escapePipesFrom(runes, i + 1)

escapePipes(s) == escapePipesFrom(s, 1)

\* One strings.ReplaceAll(s, "  ", " "): pairs of spaces from the left,
\* not overlapping.
RECURSIVE halveSpaces(_)
halveSpaces(s) ==
    IF Len(s) < 2 THEN s
    ELSE IF s[1] = " " /\ s[2] = " "
         THEN <<" ">> \o halveSpaces(SubSeq(s, 3, Len(s)))
    ELSE <<s[1]>> \o halveSpaces(Tail(s))

RECURSIVE collapseSpaces(_)
collapseSpaces(s) ==
    IF \E k \in 1..(Len(s) - 1) : s[k] = " " /\ s[k + 1] = " "
    THEN collapseSpaces(halveSpaces(s))
    ELSE s

sanitize(s) ==
    collapseSpaces(escapePipes(ReplaceAll(ReplaceAll(TrimSpace(s), "\n", " "), "\r", " ")))

RECURSIVE displayWidth(_)
displayWidth(s) ==
    IF s = <<>> THEN 0
    ELSE (IF Head(s) = Wide THEN 2 ELSE 1) + displayWidth(Tail(s))

RECURSIVE byteWidth(_)
byteWidth(s) ==
    IF s = <<>> THEN 0
    ELSE (IF Head(s) = Wide THEN 3 ELSE 1) + byteWidth(Tail(s))

\* A mutant of widthFunc: the display width in every mode.
widthFuncDisplayOnly(mode, s) == displayWidth(s)

\* widthFunc(mode)(s).
widthFunc(mode, s) == IF mode = WidthModeByte THEN byteWidth(s) ELSE displayWidth(s)

padWithMode(s, width, align, mode) ==
    LET w == widthFunc(mode, s)
        padding == width - w
    IN  IF w >= width THEN s
        ELSE IF align = AlignRight THEN Repeat(" ", padding) \o s
        ELSE IF align = AlignCenter
             THEN LET left == padding \div halfDivisor
                      right == padding - left
                  IN  Repeat(" ", left) \o s \o Repeat(" ", right)
        ELSE s \o Repeat(" ", padding)

\* The loop of calculateWidths over the data rows, from row k on.
RECURSIVE widthsOfRows(_, _, _, _)
widthsOfRows(widths, rows, k, mode) ==
    IF k > Len(rows) THEN widths
    ELSE widthsOfRows(
             [i \in 1..Len(widths) |->
                 IF i <= Len(rows[k])
                    /\ widthFunc(mode, sanitize(rows[k][i])) > widths[i]
                 THEN widthFunc(mode, sanitize(rows[k][i]))
                 ELSE widths[i]],
             rows, k + 1, mode)

calculateWidths(t) ==
    LET ofHeaders == [i \in 1..Len(t.headers) |->
                         widthFunc(t.widthMode, sanitize(t.headers[i]))]
        ofRows == widthsOfRows(ofHeaders, t.rows, 1, t.widthMode)
    IN  [i \in 1..Len(ofRows) |->
            IF ofRows[i] < minSeparatorWidth THEN minSeparatorWidth ELSE ofRows[i]]

RECURSIVE renderCells(_, _, _, _)
renderCells(t, cells, widths, i) ==
    IF i > Len(cells) \/ i > Len(widths) THEN <<>>
    ELSE <<" ">>
         \o padWithMode(sanitize(cells[i]), widths[i], t.alignments[i], t.widthMode)
         \o <<" ", "|">>
         \o renderCells(t, cells, widths, i + 1)

renderRow(t, cells, widths) ==
    IF \E i \in 1..Min(Len(cells), Len(widths)) : i > Len(t.alignments)
    THEN Panic
    ELSE <<"|">> \o renderCells(t, cells, widths, 1)

RECURSIVE renderDashes(_, _, _)
renderDashes(t, widths, i) ==
    IF i > Len(widths) THEN <<>>
    ELSE LET totalWidth == widths[i] + cellPadding IN
         (IF t.alignments[i] = AlignLeft
              THEN <<":">> \o Repeat("-", totalWidth - 1)
          ELSE IF t.alignments[i] = AlignCenter
              THEN <<":">> \o Repeat("-", totalWidth - cellPadding) \o <<":">>
          ELSE IF t.alignments[i] = AlignRight
              THEN Repeat("-", totalWidth - 1) \o <<":">>
          ELSE <<>>)
         \o <<"|">>
         \o renderDashes(t, widths, i + 1)

renderSeparator(t, widths) ==
    IF Len(widths) > Len(t.alignments) THEN Panic
    ELSE <<"|">> \o renderDashes(t, widths, 1)

RECURSIVE renderRows(_, _, _)
renderRows(t, widths, k) ==
    IF k > Len(t.rows) THEN <<>>
    ELSE LET line == renderRow(t, t.rows[k], widths)
             rest == renderRows(t, widths, k + 1)
         IN  IF line = Panic \/ rest = Panic THEN Panic
             ELSE line \o <<"\n">> \o rest

String(t) ==
    IF Len(t.headers) = 0 THEN <<>>
    ELSE LET widths == calculateWidths(t)
             header == renderRow(t, t.headers, widths)
             separator == renderSeparator(t, widths)
             rows == renderRows(t, widths, 1)
         IN  IF header = Panic \/ separator = Panic \/ rows = Panic THEN Panic
             ELSE header \o <<"\n">> \o separator \o <<"\n">> \o rows

(***************************************************************************)
(* The operations of a Table, one call after another on the same table.    *)
(* input is the table (the receiver t); returned is the last call, its     *)
(* value the table for the calls that return t.                            *)
(***************************************************************************)
\* Cells: a wide character and two letters; white space around, a newline,
\* two spaces and a pipe inside.  The empty cell is the one AddRow puts
\* where none was given.
TableCells ==
    { <<Wide, "a", "a">>,
      <<" ", "a", "\n", " ", "|", " ">> }

\* Headers: none; one column; two columns, the second with a pipe that is
\* escaped already.
HeaderLists ==
    { <<>>,
      << <<"a">> >>,
      << <<"a", "b">>, <<"\\", "|", Wide>> >> }

CallNew(headers) ==
    /\ input' = New(headers)
    /\ returned' = Called("New", headers, New(headers))
    /\ UNCHANGED dispatchVars

CallSetWidthMode(mode) ==
    /\ input' = SetWidthMode(input, mode)
    /\ returned' = Called("SetWidthMode", mode, SetWidthMode(input, mode))
    /\ UNCHANGED dispatchVars

CallSetAlignment(col, align) ==
    /\ input' = SetAlignment(input, col, align)
    /\ returned' = Called("SetAlignment", <<col, align>>, SetAlignment(input, col, align))
    /\ UNCHANGED dispatchVars

CallSetAlignments(alignments) ==
    /\ input' = SetAlignments(input, alignments)
    /\ returned' = Called("SetAlignments", alignments, SetAlignments(input, alignments))
    /\ UNCHANGED dispatchVars

CallAddRow(cells) ==
    /\ Len(input.rows) < MaxRows
    /\ input' = AddRow(input, cells)
    /\ returned' = Called("AddRow", cells, AddRow(input, cells))
    /\ UNCHANGED dispatchVars

CallString ==
    /\ returned' = Called("String", <<>>, String(input))
    /\ UNCHANGED <<input, dispatchVars>>

InitTable ==
    /\ InitNoDispatch
    /\ \E headers \in HeaderLists :
           /\ input = New(headers)
           /\ returned = Called("New", headers, New(headers))

NextTable ==
    \/ \E headers \in HeaderLists : CallNew(headers)
    \/ \E mode \in WidthMode : CallSetWidthMode(mode)
    \/ \E col \in -1..Len(input.headers), align \in Alignment :
           CallSetAlignment(col, align)
    \/ \E alignments \in SeqsUpTo(Alignment, Len(input.headers) + 1) :
           CallSetAlignments(alignments)
    \/ \E cells \in SeqsUpTo(TableCells, Len(input.headers) + 1) : CallAddRow(cells)
    \/ CallString

SpecTable == InitTable /\ [][NextTable]_vars

(***************************************************************************)
(* Properties of the Table.                                                *)
(***************************************************************************)
\* C29: after any sequence of New, SetWidthMode, SetAlignment, SetAlignments
\* and AddRow the table has one alignment per header and every stored row
\* has as many cells as there are headers, a row being the cells given with
\* the extra ones dropped and the missing ones empty; SetAlignment with a
\* column outside [0, number of headers) changes nothing, and SetAlignments
\* sets the alignments it has a header for and nothing else; so String
\* never indexes alignments or widths out of range.
C29_TableShape ==
    /\ [](/\ Len(input.alignments) = Len(input.headers)
          /\ \A k \in 1..Len(input.rows) : Len(input.rows[k]) = Len(input.headers)
          /\ returned.fn = "AddRow" =>
                 LET row == input.rows[Len(input.rows)] IN
                 \A i \in 1..Len(input.headers) :
                     /\ i <= Len(returned.arg) => row[i] = returned.arg[i]
                     /\ i > Len(returned.arg) => row[i] = <<>>
          /\ returned.fn = "String" => returned.val # Panic)
    /\ [][/\ (/\ returned'.fn = "SetAlignment"
              /\ returned'.arg[1] \notin 0..(Len(input.headers) - 1))
             => input' = input
          /\ returned'.fn = "SetAlignments" =>
                 /\ input' = [input EXCEPT !.alignments = input'.alignments]
                 /\ \A i \in 1..Len(input.headers) :
                        input'.alignments[i] =
                            IF i <= Len(returned'.arg) THEN returned'.arg[i]
                            ELSE input.alignments[i]]_vars

\* Three cells were given to a table of two headers whose alignments had
\* been set.
C29_Witness ==
    /\ returned.fn = "AddRow"
    /\ Len(input.headers) = 2
    /\ Len(returned.arg) = 3
    /\ returned.arg[3] # <<>>
    /\ input.alignments = <<AlignCenter, AlignRight>>

\* One cell was given to a table of two headers.
C29_WitnessMissingCell ==
    /\ returned.fn = "AddRow"
    /\ Len(input.headers) = 2
    /\ Len(returned.arg) = 1
    /\ input.rows[Len(input.rows)] = <<returned.arg[1], <<>> >>

\* SetAlignment was called with the number of headers as the column.
C29_WitnessOutside ==
    /\ returned.fn = "SetAlignment"
    /\ Len(input.headers) = 2
    /\ returned.arg = <<2, AlignRight>>
    /\ input.alignments = <<AlignCenter, AlignLeft>>

\* SetAlignments was called with one alignment more than there are headers.
C29_WitnessTooMany ==
    /\ returned.fn = "SetAlignments"
    /\ returned.arg = <<AlignRight, AlignCenter, AlignRight>>
    /\ input.alignments = <<AlignRight, AlignCenter>>

\* String was called on a table with a row that was given too many cells.
C29_WitnessRendered ==
    /\ returned.fn = "String"
    /\ Len(input.headers) = 2
    /\ Len(input.rows) >= 1
    /\ input.alignments = <<AlignCenter, AlignRight>>

\* The bytes of a text: three for a wide character, one for any other.
ByteLength(s) ==
    3 * Cardinality({ k \in 1..Len(s) : s[k] = Wide })
    + Cardinality({ k \in 1..Len(s) : s[k] # Wide })

\* The text of a line from byte offset lo up to byte offset hi.
BytesBetween(line, lo, hi) ==
    LET ks == { k \in 1..Len(line) :
                   /\ ByteLength(SubSeq(line, 1, k - 1)) >= lo
                   /\ ByteLength(SubSeq(line, 1, k)) <= hi }
    IN  IF ks = {} THEN <<>>
        ELSE LET first == CHOOSE k \in ks : \A j \in ks : k <= j IN
             [n \in 1..Cardinality(ks) |-> line[first + n - 1]]

\* The cells of column i, the header first.
Column(t, i) == <<t.headers[i]>> \o [k \in 1..Len(t.rows) |-> t.rows[k][i]]

\* max(3, widest sanitized cell) in bytes.
ColumnWidth(t, i) ==
    LET cells == Column(t, i)
        sizes == { ByteLength(sanitize(cells[k])) : k \in 1..Len(cells) } \cup {3}
    IN  CHOOSE w \in sizes : \A v \in sizes : v <= w

\* The byte offset of the boundary after column j, the one before the first
\* column at 0: a column takes its width, a space on each side and the
\* boundary.
RECURSIVE BoundaryAfter(_, _)
BoundaryAfter(t, j) ==
    IF j = 0 THEN 0 ELSE BoundaryAfter(t, j - 1) + ColumnWidth(t, j) + 3

\* A cell as it stands between two boundaries.
Aligned(cell, width, align) ==
    LET text == sanitize(cell)
        padding == width - ByteLength(text)
        left == CASE align = AlignLeft -> 0
                  [] align = AlignRight -> padding
                  [] align = AlignCenter -> padding \div 2
    IN  <<" ">> \o Repeat(" ", left) \o text \o Repeat(" ", padding - left) \o <<" ">>

\* C30: in WidthModeByte, String of a table with at least one header
\* renders the header line, the separator line and one line per data row,
\* all of the same byte length, with a '|' at the same byte offsets on every
\* line: a column is max(3, widest sanitized cell) wide with a space on each
\* side, the cell to the left, to the right, or centred with
\* floor(padding/2) spaces before it and the rest after it.  String of a
\* table without headers is the empty string.
C30_ColumnsLineUp ==
    returned.fn = "String" =>
        /\ Len(input.headers) = 0 => returned.val = <<>>
        /\ (Len(input.headers) >= 1 /\ input.widthMode = WidthModeByte) =>
              LET lines == LinesOf(returned.val)
                  columns == Len(input.headers)
                  edge == [j \in 0..columns |-> BoundaryAfter(input, j)]
                  width == [i \in 1..columns |-> ColumnWidth(input, i)]
                  cells == <<input.headers, <<>> >> \o input.rows
              IN  /\ returned.val # Panic
                  /\ Len(lines) = 2 + Len(input.rows)
                  /\ \A n \in 1..Len(lines) :
                         /\ ByteLength(lines[n]) = edge[columns] + 1
                         /\ \A j \in 0..columns :
                                BytesBetween(lines[n], edge[j], edge[j] + 1) = <<"|">>
                         /\ n # 2 =>
                                \A i \in 1..columns :
                                    BytesBetween(lines[n], edge[i - 1] + 1, edge[i])
                                        = Aligned(cells[n][i], width[i], input.alignments[i])
                         /\ n = 2 =>
                                \A i \in 1..columns :
                                    LET dashes == BytesBetween(lines[n], edge[i - 1] + 1, edge[i])
                                    IN  /\ ByteLength(dashes) = width[i] + 2
                                        /\ \A k \in 1..Len(dashes) : dashes[k] \in {"-", ":"}

\* A table of two headers in WidthModeByte, the first column centred and the
\* second to the right, with a row whose first cell is wider than the
\* header and holds a wide character.
C30_Witness ==
    /\ returned.fn = "String"
    /\ input.widthMode = WidthModeByte
    /\ Len(input.headers) = 2
    /\ input.alignments = <<AlignCenter, AlignRight>>
    /\ Len(input.rows) >= 1
    /\ input.rows[1] = << <<Wide, "a", "a">>, <<" ", "a", "\n", " ", "|", " ">> >>

\* The lines of that table when it has the one row.
C30_WitnessLines ==
    /\ C30_Witness
    /\ Len(input.rows) = 1
    /\ LinesOf(returned.val)
           = << <<"|", " ", " ", "a", "b", " ", " ", " ", "|",
                  " ", "\\", "|", Wide, " ", "|">>,
                <<"|", ":", "-", "-", "-", "-", "-", ":", "|",
                  "-", "-", "-", "-", "-", "-", ":", "|">>,
                <<"|", " ", Wide, "a", "a", " ", "|",
                  " ", " ", "a", " ", "\\", "|", " ", "|">> >>

\* String of a table without headers.
C30_WitnessNoHeaders ==
    /\ returned.fn = "String"
    /\ Len(input.headers) = 0
    /\ Len(input.rows) >= 1
    /\ returned.val = <<>>

\* In WidthModeDisplay the lines of the same table differ in byte length.
C30_DisplayModeDiffers ==
    /\ returned.fn = "String"
    /\ input.widthMode = WidthModeDisplay
    /\ Len(input.headers) = 2
    /\ \E m, n \in 1..Len(LinesOf(returned.val)) :
           ByteLength(LinesOf(returned.val)[m]) # ByteLength(LinesOf(returned.val)[n])
====
